---- MODULE Spec2Model ----
(***************************************************************************)
(* A model of the class-data-sharing prelinker of HotSpot                  *)
(* (src/hotspot/share/cds/classPrelinker.cpp): the dump-time tables and    *)
(* the eligibility oracle, the preload-sequence recorder, and the          *)
(* run-time replay of the recorded sequences.                              *)
(*                                                                         *)
(* Classes are numbered in load order, so a class's supertypes have        *)
(* smaller numbers.  java.lang.Object and the other roots every hierarchy  *)
(* shares are elided: a class whose java_super is NoKlass stands directly  *)
(* under them.                                                             *)
(***************************************************************************)
EXTENDS Integers, Sequences, FiniteSets, TLC

\* ---------------------------------------------------------------- bounds
\* how many classes the two runs (static dump, dynamic dump) load in all
NumKlasses == 2

\* nullptr, as a class reference
NoKlass == 0

VARIABLES
    \* ---- the class-loading subsystem (InstanceKlass fields the code reads)
    klass,                       \* sequence of loaded classes, in load order
    shared,                      \* classes inside the mapped base archive
    run,                         \* "static": -Xshare:dump; "dynamic": a run on that archive
    PreloadSharedClasses,        \* the command-line flag of this run
    \* ---- ClassPrelinker's static fields
    vm_classes,
    preloaded_classes,
    processed_classes,
    platform_initiated_classes,
    app_initiated_classes,
    num_vm_klasses,
    record_java_base_only,
    static_preloaded_klasses,
    dynamic_preloaded_klasses,
    \* ---- the dump in progress
    dump,                        \* "idle" | "initialized" | "disposed"
    recorded,                    \* record_preloaded_klasses has run in this dump
    assert_failed,               \* assert() messages that failed (debug build)
    last,                        \* the last oracle call and what it returned
    \* ---- constant pools (dumptime_resolve_constants)
    is_linked,                   \* per class: ik->is_linked()
    constants,                   \* per class: the entries of ik->constants(), from index 1
    \* ---- the run that maps the archives (runtime_preload)
    archived,                    \* the classes of the mapped archives
    UseSharedSpaces,
    has_platform_or_app_classes, \* SystemDictionaryShared::has_platform_or_app_classes()
    is_loaded,                   \* the archived classes that are loaded
    preload_java_base_only,
    class_preloading_finished,
    rt,                          \* runtime_preload's position
    rt_calls,                    \* invocations of runtime_preload that have returned
    rt_log                       \* the resolutions of the current invocation, in order

dumpVars == <<klass, shared, run, PreloadSharedClasses, vm_classes, preloaded_classes,
              processed_classes, platform_initiated_classes, app_initiated_classes,
              num_vm_klasses, record_java_base_only, static_preloaded_klasses,
              dynamic_preloaded_klasses, dump, recorded, assert_failed, last>>
cpVars == <<is_linked, constants>>
rtVars == <<archived, UseSharedSpaces, has_platform_or_app_classes, is_loaded,
            preload_java_base_only, class_preloading_finished, rt, rt_calls, rt_log>>

\* DynamicArchive::validate: the current base archive's checksums, the dynamic
\* header's record of them, and the last call
VARIABLES base_info, dynamic_header, validated

vaVars == <<base_info, dynamic_header, validated>>

\* compiler/methodTrainingData: the two flags, the methods' names, the set of
\* records, each method's MethodCounters, the last call and what has been
\* observed of each record
VARIABLES StoreProfiles, LoadProfiles, method_names, method_training_data_set,
          method_counters, noticed, observed_of_record

tdVars == <<StoreProfiles, LoadProfiles, method_names, method_training_data_set,
            method_counters, noticed, observed_of_record>>

\* DynamicArchiveBuilder::doit: whether the dump-time table is empty, the next
\* call, the calls made, ArchiveBuilder's klasses, what exists of the archive,
\* the classes that still have a java mirror, and what sort_methods did
VARIABLES dumptime_table_empty, doit_pc, doit_log, builder_klasses, archive_file,
          java_mirror, sort_log, ptr_marked

ddVars == <<dumptime_table_empty, doit_pc, doit_log, builder_klasses, archive_file,
            java_mirror, sort_log, ptr_marked>>

\* ---- pointer fields written into the buffer (relocation)
VARIABLES reloc_objs, reloc_pc, embedded, klass_array, aot_data

rlVars == <<reloc_objs, reloc_pc, embedded, klass_array, aot_data>>

\* ---- DynamicArchive::check_for_dynamic_dump, dump_at_exit, dump_for_jcmd
VARIABLES DynamicDumpSharedSpaces, RecordDynamicDumpInfo, ArchiveClassesAtExit,
          base_loaded, vm_state, pending_exception, cds_log, vm_ops, jcmd_calls, exit_calls

exVars == <<DynamicDumpSharedSpaces, RecordDynamicDumpInfo, ArchiveClassesAtExit,
            base_loaded, vm_state, pending_exception, cds_log, vm_ops, jcmd_calls, exit_calls>>

\* ---- dynamic_dump_method_comparator: where each name Symbol lives and the
\* last comparison
VARIABLES sym_live_addr, sym_loc, cmp_last

cmVars == <<sym_live_addr, sym_loc, cmp_last>>

\* ---- TrainingData::store_results: the global table, what preparing a
\* record installs, the worklist and the loop's two lengths
VARIABLES td_table, td_materializes, tda, prev_len, len, td_prepared, store_pc

srVars == <<td_table, td_materializes, tda, prev_len, len, td_prepared, store_pc>>

\* ---- concurrent MethodTrainingData::notice_compilation on one method: the
\* record, the MethodCounters cache, the holder of TrainingData_lock, each
\* thread's position and locals, and what the calls have noticed so far
VARIABLES mtd_record, mcs_cached, lock_holder, thr, noticed_so_far

ccVars == <<mtd_record, mcs_cached, lock_holder, thr, noticed_so_far>>

\* ---- KlassTrainingData's static fields: each field's _fieldinit_sequence_index,
\* _fieldinit_count, the fields setup_static_fields has numbered, each thread's
\* position in record_static_field_init, and the calls and their results
VARIABLES fieldinit_sequence_index, fieldinit_count, numbered_by_setup, fi_thr, fi_calls, fi_true

fiVars == <<fieldinit_sequence_index, fieldinit_count, numbered_by_setup, fi_thr, fi_calls, fi_true>>

\* ---- the training records put in order for the dump: each class record's
\* _clinit_sequence_index, each method record's class and last compile id,
\* and the last comparison qsort has made
VARIABLES clinit_sequence_index, mtd_klass, last_compile_id, tdata_cmp_last

tcVars == <<clinit_sequence_index, mtd_klass, last_compile_id, tdata_cmp_last>>

\* ---- CompileTrainingData::make on one MethodTrainingData: the records of its
\* _compile list from the head on, the holder of the training-data lock, each
\* thread's position and locals, and the records the calls have returned
VARIABLES compile_list, make_lock, make_thr, make_returned

mkVars == <<compile_list, make_lock, make_thr, make_returned>>

\* ---- the first observations of one method and its class: have_data() and
\* need_data() (collect_data), the record each table holds for the method's name, the method's
\* key and the class's key, the cached pointers, the holder of the
\* training-data lock, each thread's position, the number of records
\* allocated, what the calls returned and which calls added a record
VARIABLES have_data, collect_data, td_set, td_cached, td_lock, lazy_thr, td_allocated, td_returned, td_added

lzVars == <<have_data, collect_data, td_set, td_cached, td_lock, lazy_thr, td_allocated, td_returned, td_added>>

\* ---- the ClassPrelinker tables over a sequence of dump attempts (classPrelinker.cpp:77-114, dynamicArchive.cpp:261-342, 378-381)
VARIABLES tables_allocated, attempt_pc, attempt_empty, attempt_log, post_dumps, attempt_asserts

alVars == <<tables_allocated, attempt_pc, attempt_empty, attempt_log, post_dumps, attempt_asserts>>

\* ---- racing calls of KlassTrainingData::setup_static_fields for one class (trainingData.cpp:610-656)
VARIABLES holder_fields, static_fields, no_static_fields, setup_fieldinit_count, setup_arrays, setup_deleted, setup_installs, setup_thr

ssVars == <<holder_fields, static_fields, no_static_fields, setup_fieldinit_count, setup_arrays, setup_deleted, setup_installs, setup_thr>>

moreVars == <<rlVars, exVars, cmVars, srVars, ccVars, fiVars, tcVars, mkVars, lzVars, alVars, ssVars>>

oldVars == <<dumpVars, cpVars, rtVars, vaVars, tdVars, ddVars>>

\* what the actions of each later part leave alone
NotRelocate == <<oldVars, exVars, cmVars, srVars, ccVars, fiVars, tcVars, mkVars, lzVars, alVars, ssVars>>
NotExit == <<oldVars, rlVars, cmVars, srVars, ccVars, fiVars, tcVars, mkVars, lzVars, alVars, ssVars>>
NotCompare == <<oldVars, rlVars, exVars, srVars, ccVars, fiVars, tcVars, mkVars, lzVars, alVars, ssVars>>
NotStore == <<oldVars, rlVars, exVars, cmVars, ccVars, fiVars, tcVars, mkVars, lzVars, alVars, ssVars>>
NotConcurrent == <<oldVars, rlVars, exVars, cmVars, srVars, fiVars, tcVars, mkVars, lzVars, alVars, ssVars>>
NotFieldInit == <<oldVars, rlVars, exVars, cmVars, srVars, ccVars, tcVars, mkVars, lzVars, alVars, ssVars>>
NotOrder == <<oldVars, rlVars, exVars, cmVars, srVars, ccVars, fiVars, mkVars, lzVars, alVars, ssVars>>
NotMake == <<oldVars, rlVars, exVars, cmVars, srVars, ccVars, fiVars, tcVars, lzVars, alVars, ssVars>>
NotLazy == <<oldVars, rlVars, exVars, cmVars, srVars, ccVars, fiVars, tcVars, mkVars, alVars, ssVars>>
NotAlternate == <<oldVars, rlVars, exVars, cmVars, srVars, ccVars, fiVars, tcVars, mkVars, lzVars, ssVars>>
NotSetup == <<oldVars, rlVars, exVars, cmVars, srVars, ccVars, fiVars, tcVars, mkVars, lzVars, alVars>>

restVars == <<vaVars, tdVars, ddVars, moreVars>>

vars == <<dumpVars, cpVars, rtVars, restVars>>

worldVars == <<klass, shared, run, PreloadSharedClasses>>
tableVars == <<vm_classes, preloaded_classes, processed_classes,
               platform_initiated_classes, app_initiated_classes, num_vm_klasses>>
seqVars == <<record_java_base_only, static_preloaded_klasses, dynamic_preloaded_klasses>>

\* no oracle call was the last operation
NoCall == [op |-> "none"]

\* ------------------------------------------------------- class universe
Loaded == 1..Len(klass)

\* The shapes of class the loaders produce.  scp_* describe the class's
\* SharedClassPathEntry; vm_root marks the classes vmClasses::klass_at names.
Kind(lt, mod, hid, named, image, vm) ==
    [loader_type |-> lt, module |-> mod, is_hidden |-> hid,
     scp_in_named_module |-> named, scp_is_modules_image |-> image, vm_root |-> vm]

KlassKinds ==
    { Kind("boot", "java.base", FALSE, TRUE, TRUE, TRUE),      \* a vmClasses entry
      Kind("boot", "java.base", FALSE, TRUE, TRUE, FALSE),     \* java.base, not a vm class
      Kind("boot", "named", FALSE, TRUE, TRUE, FALSE),         \* boot module outside java.base
      Kind("boot", "unnamed", FALSE, FALSE, FALSE, FALSE),     \* -Xbootclasspath/a
      Kind("platform", "named", FALSE, TRUE, TRUE, FALSE),
      Kind("app", "unnamed", FALSE, FALSE, FALSE, FALSE),      \* class path
      Kind("app", "unnamed", TRUE, FALSE, FALSE, FALSE),       \* hidden (lambda proxy)
      Kind("app", "named", FALSE, TRUE, FALSE, FALSE),         \* --module-path
      Kind("custom", "unnamed", FALSE, FALSE, FALSE, FALSE) }  \* user-defined loader

\* What the loaders' delegation and the module graph allow as a supertype.
CanExtend(sub, sup) ==
    /\ ~sup.is_hidden
    /\ sub.loader_type = "boot" => sup.loader_type = "boot"
    /\ sub.module = "java.base" => sup.module = "java.base"
    /\ sub.loader_type = "platform" => sup.loader_type \in {"boot", "platform"}
    /\ sub.loader_type = "app" => sup.loader_type # "custom"

java_super(k) == klass[k].java_super
local_interfaces(k) == klass[k].local_interfaces
is_hidden(k) == klass[k].is_hidden
is_shared_boot_class(k) == klass[k].loader_type = "boot"
is_shared_platform_class(k) == klass[k].loader_type = "platform"
is_shared_app_class(k) == klass[k].loader_type = "app"
\* ik->class_loader(): the defining loader
class_loader(k) == klass[k].loader_type
\* MetaspaceObj::is_shared(ik)
is_shared(k) == k \in shared

\* The classes the ArchiveBuilder of this dump copies: the loaded classes that
\* are not in the base archive.
ArchivedKlasses == Loaded \ shared

RECURSIVE SuperTypes(_)
\* k itself, its superclasses and all their interfaces, transitively
SuperTypes(k) ==
    {k} \cup (IF java_super(k) = NoKlass THEN {} ELSE SuperTypes(java_super(k)))
        \cup UNION { SuperTypes(local_interfaces(k)[i]) : i \in 1..Len(local_interfaces(k)) }

\* Klass::is_subtype_of
is_subtype_of(k, target) == target \in SuperTypes(k)

\* ---------------------------------------------------------------- tables
\* A ClassesTable pointer: nullptr, or a table with its entries in insertion order.
NullTable == [null |-> TRUE, elems |-> <<>>]
NewTable == [null |-> FALSE, elems |-> <<>>]

Range(s) == { s[i] : i \in 1..Len(s) }

TableGet(t, ik) == ik \in Range(t.elems)

\* ResourceHashtable::put_if_absent: the table afterwards and *p_created
PutIfAbsent(t, ik) ==
    IF TableGet(t, ik)
    THEN [table |-> t, created |-> FALSE]
    ELSE [table |-> [t EXCEPT !.elems = Append(@, ik)], created |-> TRUE]

is_vm_class(ik) == TableGet(vm_classes, ik)
is_preloaded_class(ik) == TableGet(preloaded_classes, ik)

\* An Array<InstanceKlass*>* of a PreloadedKlasses table
NullArray == [null |-> TRUE, elems |-> <<>>]
ArrayOf(s) == [null |-> FALSE, elems |-> s]
NoPreloadedKlasses ==
    [boot |-> NullArray, boot2 |-> NullArray, platform |-> NullArray, app |-> NullArray,
     platform_initiated |-> NullArray, app_initiated |-> NullArray]

\* ------------------------------------------------------------ initialize
RECURSIVE add_one_vm_class(_, _)
RECURSIVE add_vm_interfaces(_, _, _)
\* st = [pre, vm, num]: _preloaded_classes, _vm_classes, _num_vm_klasses
add_one_vm_class(st, ik) ==
    LET p == PutIfAbsent(st.pre, ik)
        v == PutIfAbsent(st.vm, ik)
        s1 == [st EXCEPT !.pre = p.table, !.vm = v.table]
    IN  IF v.created
        THEN LET s2 == [s1 EXCEPT !.num = @ + 1]
                 s3 == IF java_super(ik) # NoKlass
                       THEN add_one_vm_class(s2, java_super(ik))
                       ELSE s2
             IN  add_vm_interfaces(s3, local_interfaces(ik), 1)
        ELSE s1

add_vm_interfaces(st, ifs, i) ==
    IF i > Len(ifs) THEN st
    ELSE add_vm_interfaces(add_one_vm_class(st, ifs[i]), ifs, i + 1)

RECURSIVE add_vm_roots(_, _)
\* for (auto id : EnumRange<vmClassID>{}) add_one_vm_class(vmClasses::klass_at(id))
add_vm_roots(st, k) ==
    IF k > Len(klass) THEN st
    ELSE add_vm_roots(IF klass[k].vm_root THEN add_one_vm_class(st, k) ELSE st, k + 1)

RECURSIVE add_preloaded_klasses(_, _, _)
\* st = [pre, failed]
add_preloaded_klasses(st, klasses, i) ==
    IF i > Len(klasses) THEN st
    ELSE LET p == PutIfAbsent(st.pre, klasses[i])
         IN  add_preloaded_klasses(
                 [pre |-> p.table,
                  failed |-> IF p.created THEN st.failed
                             ELSE st.failed \cup {"must add only once"}],
                 klasses, i + 1)

Initialize ==
    /\ UNCHANGED restVars
    /\ UNCHANGED <<cpVars, rtVars>>
    /\ dump = "idle"
    /\ run = "dynamic" => ArchivedKlasses # {}
    /\ LET vmst == add_vm_roots([pre |-> NewTable, vm |-> NewTable, num |-> num_vm_klasses], 1)
           sp == static_preloaded_klasses
           a0 == [pre |-> vmst.pre,
                  failed |-> IF vm_classes.null THEN {} ELSE {"initialize: must be"}]
           a1 == add_preloaded_klasses(a0, sp.boot.elems, 1)
           a2 == add_preloaded_klasses(a1, sp.boot2.elems, 1)
           a3 == add_preloaded_klasses(a2, sp.platform.elems, 1)
           a4 == add_preloaded_klasses(a3, sp.app.elems, 1)
           fin == IF ~sp.boot.null THEN a4 ELSE a0
       IN  /\ vm_classes' = vmst.vm
           /\ preloaded_classes' = fin.pre
           /\ num_vm_klasses' = vmst.num
           /\ assert_failed' = assert_failed \cup fin.failed
                  \cup (IF ~sp.boot.null /\ run # "dynamic" THEN {"DynamicDumpSharedSpaces"} ELSE {})
    /\ processed_classes' = NewTable
    /\ platform_initiated_classes' = NewTable
    /\ app_initiated_classes' = NewTable
    /\ dump' = "initialized"
    /\ recorded' = FALSE
    /\ UNCHANGED <<worldVars, seqVars, last>>

\* ------------------------------------------------- PreloadedKlassRecorder
LoaderTypes == {"boot", "platform", "app"}

\* variant: a pass that takes classes of every loader
loader_type_matches_any(loader_type, k) == TRUE

\* PreloadedKlassRecorder::loader_type_matches
loader_type_matches(loader_type, k) ==
    CASE loader_type = "boot" -> is_shared_boot_class(k)
      [] loader_type = "platform" -> is_shared_platform_class(k)
      [] loader_type = "app" -> is_shared_app_class(k)

\* variant: every named module counts as java.base
is_java_base_any_named(ik) == klass[ik].module # "unnamed"

\* ik->module() != nullptr && ik->module()->name() != nullptr && name equals "java.base"
is_java_base(ik) == klass[ik].module = "java.base"

\* variant: the origin of a module class is not looked at
not_from_modules_image_never(ik) == FALSE

\* scp_entry->in_named_module() && !scp_entry->is_modules_image()
not_from_modules_image(ik) ==
    klass[ik].scp_in_named_module /\ ~klass[ik].scp_is_modules_image

\* The filters of maybe_record, in the code's order; TRUE when ik is dropped.
\* java_base_only is _record_java_base_only during the pass.
filtered_out(loader_type, java_base_only, ik) ==
    \/ is_vm_class(ik)
    \/ loader_type = "boot" /\ java_base_only # is_java_base(ik)
    \/ is_hidden(ik)
    \/ ~loader_type_matches(loader_type, ik)
    \/ is_shared(ik)
    \/ not_from_modules_image(ik)

RECURSIVE maybe_record(_, _, _, _)
RECURSIVE maybe_record_interfaces(_, _, _, _, _)

\* maybe_record without the walk up the hierarchy
maybe_record_no_recursion(st, loader_type, java_base_only, ik) ==
    IF ik \in st.seen THEN st
    ELSE
    LET s1 == [st EXCEPT !.seen = @ \cup {ik}] IN
    IF filtered_out(loader_type, java_base_only, ik) THEN s1
    ELSE
    LET p == PutIfAbsent(s1.pre, ik)
    IN  [s1 EXCEPT !.list = Append(@, ik),
                   !.pre = p.table,
                   !.failed = IF p.created THEN @ ELSE @ \cup {"maybe_record: must be"}]

\* st = [seen, list, pre, failed]: _seen_klasses, _list, _preloaded_classes and
\* the assertions that failed
maybe_record(st, loader_type, java_base_only, ik) ==
    IF ik \in st.seen THEN st
    ELSE
    LET s1 == [st EXCEPT !.seen = @ \cup {ik}] IN
    IF filtered_out(loader_type, java_base_only, ik) THEN s1
    ELSE
    LET s2 == IF java_super(ik) # NoKlass
              THEN maybe_record(s1, loader_type, java_base_only, java_super(ik))
              ELSE s1
        s3 == maybe_record_interfaces(s2, loader_type, java_base_only, local_interfaces(ik), 1)
        p == PutIfAbsent(s3.pre, ik)
    IN  [s3 EXCEPT !.list = Append(@, ik),
                   !.pre = p.table,
                   !.failed = IF p.created THEN @ ELSE @ \cup {"maybe_record: must be"}]

maybe_record_interfaces(st, loader_type, java_base_only, ifs, i) ==
    IF i > Len(ifs) THEN st
    ELSE maybe_record_interfaces(maybe_record(st, loader_type, java_base_only, ifs[i]),
                                 loader_type, java_base_only, ifs, i + 1)

RECURSIVE iterate(_, _, _, _, _)
\* PreloadedKlassRecorder::iterate over ArchiveBuilder::current()->klasses()
iterate(st, loader_type, java_base_only, klasses, i) ==
    IF i > Len(klasses) THEN st
    ELSE iterate(maybe_record(st, loader_type, java_base_only, klasses[i]),
                 loader_type, java_base_only, klasses, i + 1)

\* record_preloaded_klasses(int loader_type): a fresh recorder, iterate, to_array.
\* pf = [pre, failed] carries _preloaded_classes and the failed assertions
\* from pass to pass.
record_pass(pf, loader_type, java_base_only, klasses) ==
    iterate([seen |-> {}, list |-> <<>>, pre |-> pf.pre, failed |-> pf.failed],
            loader_type, java_base_only, klasses, 1)

\* The orders ArchiveBuilder::klasses() may hold the set S in.
Orders(S) ==
    { s \in [1..Cardinality(S) -> S] : \A i, j \in 1..Cardinality(S) : i # j => s[i] # s[j] }

\* ClassPrelinker::record_preloaded_klasses(bool is_static_archive)
RecordPreloadedKlasses ==
    /\ UNCHANGED restVars
    /\ UNCHANGED <<cpVars, rtVars>>
    /\ dump = "initialized"
    /\ ~recorded
    /\ recorded' = TRUE
    /\ IF PreloadSharedClasses
       THEN \E klasses \in Orders(ArchivedKlasses) :
            LET p0 == [pre |-> preloaded_classes, failed |-> {}]
                b1 == record_pass(p0, "boot", TRUE, klasses)
                b2 == record_pass(b1, "boot", FALSE, klasses)
                pl == record_pass(b2, "platform", FALSE, klasses)
                ap == record_pass(pl, "app", FALSE, klasses)
                new == [boot |-> ArrayOf(b1.list), boot2 |-> ArrayOf(b2.list),
                        platform |-> ArrayOf(pl.list), app |-> ArrayOf(ap.list)]
            IN  /\ record_java_base_only' = FALSE
                /\ preloaded_classes' = ap.pre
                /\ assert_failed' = assert_failed \cup ap.failed
                /\ IF run = "static"
                   THEN /\ static_preloaded_klasses' =
                               [static_preloaded_klasses EXCEPT
                                   !.boot = new.boot, !.boot2 = new.boot2,
                                   !.platform = new.platform, !.app = new.app]
                        /\ UNCHANGED dynamic_preloaded_klasses
                   ELSE /\ dynamic_preloaded_klasses' =
                               [dynamic_preloaded_klasses EXCEPT
                                   !.boot = new.boot, !.boot2 = new.boot2,
                                   !.platform = new.platform, !.app = new.app]
                        /\ UNCHANGED static_preloaded_klasses
       ELSE UNCHANGED <<record_java_base_only, preloaded_classes, assert_failed,
                        static_preloaded_klasses, dynamic_preloaded_klasses>>
    /\ last' = NoCall
    /\ UNCHANGED <<worldVars, vm_classes, processed_classes, platform_initiated_classes,
                   app_initiated_classes, num_vm_klasses, dump>>

\* ClassPrelinker::dispose
Dispose ==
    /\ UNCHANGED restVars
    /\ UNCHANGED <<cpVars, rtVars>>
    /\ dump = "initialized"
    /\ recorded
    /\ assert_failed' = assert_failed
           \cup (IF vm_classes.null THEN {"dispose: must be"} ELSE {})
    /\ vm_classes' = NullTable
    /\ processed_classes' = NullTable
    /\ platform_initiated_classes' = NullTable
    /\ app_initiated_classes' = NullTable
    /\ dump' = "disposed"
    /\ last' = NoCall
    /\ UNCHANGED <<worldVars, preloaded_classes, num_vm_klasses, seqVars, recorded>>

\* ------------------------------------------------ the eligibility oracle
\* A resolved klass that is no instance class (an array class)
ArrayKlass == -1

\* SystemDictionary::is_platform_class_loader / is_system_class_loader
is_platform_class_loader(loader) == loader = "platform"
is_system_class_loader(loader) == loader = "app"

\* variant: hidden holders are not turned away
holder_is_rejected_never(cp_holder) == FALSE

\* if (cp_holder->is_hidden()) return false;
holder_is_rejected(cp_holder) == is_hidden(cp_holder)

\* variant: a supertype is accepted only within one loader
supertype_is_accepted_same_loader(cp_holder, ik) ==
    is_subtype_of(cp_holder, ik) /\ class_loader(cp_holder) = class_loader(ik)

\* if (cp_holder->is_subtype_of(ik)) return true;
supertype_is_accepted(cp_holder, ik) == is_subtype_of(cp_holder, ik)

\* variant: a vm holder accepts any preloaded target
vm_holder_accepts_preloaded(ik) == is_preloaded_class(ik)

\* if (is_vm_class(cp_holder)) return is_vm_class(ik);
vm_holder_accepts(ik) == is_vm_class(ik)

\* variant: the test on the target's loader inverted
platform_loader_initiates_own(loader) == is_platform_class_loader(loader)

\* if (!SystemDictionary::is_platform_class_loader(loader)) put_if_absent(ik)
platform_loader_initiates(loader) == ~is_platform_class_loader(loader)

\* if (!SystemDictionary::is_system_class_loader(loader)) put_if_absent(ik)
app_loader_initiates(loader) == ~is_system_class_loader(loader)

\* ClassPrelinker::can_archive_resolved_klass(InstanceKlass*, Klass*): what it
\* returns, the two initiated tables afterwards, and the assertions that failed.
can_archive_resolved_klass(cp_holder, resolved_klass) ==
    LET no == [ret |-> FALSE,
               platform_initiated |-> platform_initiated_classes,
               app_initiated |-> app_initiated_classes,
               failed |-> {}]
        yes == [no EXCEPT !.ret = TRUE]
        ik == resolved_klass
    IN  IF holder_is_rejected(cp_holder) THEN no
        ELSE IF resolved_klass = ArrayKlass THEN no
        ELSE IF supertype_is_accepted(cp_holder, ik) THEN yes
        ELSE IF is_vm_class(cp_holder) THEN [no EXCEPT !.ret = vm_holder_accepts(ik)]
        ELSE IF is_preloaded_class(ik)
        THEN LET loader == class_loader(ik) IN
             IF is_shared_platform_class(cp_holder)
             THEN IF platform_loader_initiates(loader)
                  THEN [yes EXCEPT !.platform_initiated = PutIfAbsent(@, ik).table]
                  ELSE yes
             ELSE IF is_shared_app_class(cp_holder)
             THEN IF app_loader_initiates(loader)
                  THEN [yes EXCEPT !.app_initiated = PutIfAbsent(@, ik).table]
                  ELSE yes
             ELSE IF is_shared_boot_class(cp_holder)
             THEN [yes EXCEPT !.failed = IF loader = "boot" THEN {}
                                         ELSE {"loader == nullptr: must be"}]
             ELSE no
        ELSE no

\* variant: every loader finds every class
CanResolveAny(cp_holder, k) == TRUE

\* The classes a constant pool of cp_holder can hold resolved: those its
\* defining loader finds.  The boot loader finds only its own classes; the
\* platform and system loaders delegate to the boot loader and to each other.
CanResolve(cp_holder, k) ==
    CASE klass[cp_holder].loader_type = "boot" -> klass[k].loader_type = "boot"
      [] klass[cp_holder].loader_type \in {"platform", "app"} ->
             klass[k].loader_type \in {"boot", "platform", "app"}
      [] OTHER -> TRUE

ResolvedKlasses(cp_holder) ==
    { k \in Loaded : CanResolve(cp_holder, k) } \cup {ArrayKlass}

\* A call of can_archive_resolved_klass on a resolved entry of cp_holder's pool
CanArchiveResolvedKlass ==
    /\ UNCHANGED restVars
    /\ UNCHANGED <<cpVars, rtVars>>
    /\ dump = "initialized"
    /\ recorded
    /\ \E cp_holder \in Loaded : \E resolved_klass \in ResolvedKlasses(cp_holder) :
        LET r == can_archive_resolved_klass(cp_holder, resolved_klass) IN
        /\ platform_initiated_classes' = r.platform_initiated
        /\ app_initiated_classes' = r.app_initiated
        /\ assert_failed' = assert_failed \cup r.failed
        /\ last' = [op |-> "klass", holder |-> cp_holder, target |-> resolved_klass,
                    ret |-> r.ret]
    /\ UNCHANGED <<worldVars, vm_classes, preloaded_classes, processed_classes,
                   num_vm_klasses, seqVars, dump, recorded>>

\* What a Fieldref entry of a pool amounts to for can_archive_resolved_field:
\* whether its class entry is resolved (tag_at(klass_cp_index).is_klass()), the
\* class it is resolved to, and what k->find_field(name, sig, &fd) finds there.
FieldLookups == {"none", "instance", "static"}

\* variant: static fields are let through
field_is_rejected_if_missing(found) == found = "none"

\* k->find_field(name, sig, &fd) == NULL || fd.access_flags().is_static()
field_is_rejected(found) == found = "none" \/ found = "static"

can_archive_resolved_field(cp_holder, klass_resolved, k, found) ==
    LET no == [ret |-> FALSE,
               platform_initiated |-> platform_initiated_classes,
               app_initiated |-> app_initiated_classes,
               failed |-> {}]
    IN  IF ~klass_resolved THEN no
        ELSE LET r == can_archive_resolved_klass(cp_holder, k) IN
             IF ~r.ret THEN [r EXCEPT !.ret = FALSE]
             ELSE IF field_is_rejected(found) THEN [r EXCEPT !.ret = FALSE]
             ELSE [r EXCEPT !.ret = TRUE]

CanArchiveResolvedField ==
    /\ UNCHANGED restVars
    /\ UNCHANGED <<cpVars, rtVars>>
    /\ dump = "initialized"
    /\ recorded
    /\ \E cp_holder \in Loaded : \E k \in ResolvedKlasses(cp_holder) \ {ArrayKlass} :
       \E klass_resolved \in BOOLEAN, found \in FieldLookups :
        LET r == can_archive_resolved_field(cp_holder, klass_resolved, k, found) IN
        /\ platform_initiated_classes' = r.platform_initiated
        /\ app_initiated_classes' = r.app_initiated
        /\ assert_failed' = assert_failed \cup r.failed
        /\ last' = [op |-> "field", holder |-> cp_holder, target |-> k,
                    klass_resolved |-> klass_resolved, found |-> found, ret |-> r.ret]
    /\ UNCHANGED <<worldVars, vm_classes, preloaded_classes, processed_classes,
                   num_vm_klasses, seqVars, dump, recorded>>

\* ------------------------------------------------------ the two processes
\* The class-loading subsystem defines one more class.
LoadClass ==
    /\ UNCHANGED restVars
    /\ UNCHANGED <<cpVars, rtVars>>
    /\ dump = "idle"
    /\ Len(klass) < NumKlasses
    /\ \E kind \in KlassKinds, sup \in {NoKlass} \cup Loaded,
          ifs \in {<<>>} \cup { <<i>> : i \in Loaded } :
        /\ sup # NoKlass => CanExtend(kind, klass[sup])
        /\ \A i \in Range(ifs) : i # sup /\ CanExtend(kind, klass[i])
        \* the vm classes are loaded at bootstrap, hence in the static run
        /\ kind.vm_root => run = "static"
        /\ klass' = Append(klass, [loader_type |-> kind.loader_type,
                                   module |-> kind.module,
                                   is_hidden |-> kind.is_hidden,
                                   scp_in_named_module |-> kind.scp_in_named_module,
                                   scp_is_modules_image |-> kind.scp_is_modules_image,
                                   vm_root |-> kind.vm_root,
                                   java_super |-> sup,
                                   local_interfaces |-> ifs])
    /\ UNCHANGED <<shared, run, PreloadSharedClasses, tableVars, seqVars, dump,
                   recorded, assert_failed, last>>

\* A new process maps the archive the static dump wrote: the classes it holds are
\* shared, ClassPrelinker's statics have their initial values again, and
\* ClassPrelinker::serialize reads _static_preloaded_klasses from the archive.
StartDynamicRun ==
    /\ UNCHANGED restVars
    /\ UNCHANGED <<cpVars, rtVars>>
    /\ run = "static"
    /\ dump = "disposed"
    \* a dynamic dump needs a class of its own (DynamicArchiveBuilder::doit
    \* returns early when there is no class to include)
    /\ Len(klass) < NumKlasses
    /\ run' = "dynamic"
    /\ shared' = Loaded
    /\ UNCHANGED PreloadSharedClasses
    /\ vm_classes' = NullTable
    /\ preloaded_classes' = NullTable
    /\ processed_classes' = NullTable
    /\ platform_initiated_classes' = NullTable
    /\ app_initiated_classes' = NullTable
    /\ num_vm_klasses' = 0
    /\ record_java_base_only' = TRUE
    /\ dump' = "idle"
    /\ recorded' = FALSE
    /\ UNCHANGED <<klass, static_preloaded_klasses, dynamic_preloaded_klasses,
                   assert_failed, last>>

\* no archive is mapped and runtime_preload has not been called
RuntimeIdle == [pc |-> "idle", loader |-> "boot", table |-> "static", i |-> 1,
                exception |-> FALSE]

NoChecksums == [crc |-> 0, region_crc |-> <<>>]

InitValidateUnused ==
    /\ base_info = NoChecksums
    /\ dynamic_header = NoChecksums
    /\ validated = [op |-> "none"]

InitTrainingUnused ==
    /\ StoreProfiles = FALSE
    /\ LoadProfiles = FALSE
    /\ method_names = <<>>
    /\ method_training_data_set = <<>>
    /\ method_counters = <<>>
    /\ noticed = [op |-> "none"]
    /\ observed_of_record = <<>>

NoArchive == [header |-> FALSE, buffer |-> FALSE, open |-> FALSE, regions |-> FALSE]

InitDoitUnused ==
    /\ dumptime_table_empty = TRUE
    /\ doit_pc = 0
    /\ doit_log = <<>>
    /\ builder_klasses = <<>>
    /\ archive_file = NoArchive
    /\ java_mirror = {}
    /\ sort_log = <<>>
    /\ ptr_marked = {}

\* no pointer field has been written
InitRelocateUnused ==
    /\ reloc_objs = <<>>
    /\ reloc_pc = "unused"
    /\ embedded = <<>>
    /\ klass_array = <<>>
    /\ aot_data = <<>>

\* a call of one of the three functions and what its steps threw
NoExitCall == [op |-> "none", link |-> "none", init |-> "none"]

\* the VM runs without a request for a dynamic dump
InitExitUnused ==
    /\ DynamicDumpSharedSpaces = FALSE
    /\ RecordDynamicDumpInfo = FALSE
    /\ ArchiveClassesAtExit = FALSE
    /\ base_loaded = FALSE
    /\ vm_state = "running"
    /\ pending_exception = "none"
    /\ cds_log = <<>>
    /\ vm_ops = 0
    /\ jcmd_calls = 0
    /\ exit_calls = <<>>

\* no method was compared
NoCompare == [op |-> "none"]

InitCompareUnused ==
    /\ sym_live_addr = <<>>
    /\ sym_loc = <<>>
    /\ cmp_last = NoCompare

\* store_results was not called
InitStoreUnused ==
    /\ td_table = {}
    /\ td_materializes = <<>>
    /\ tda = <<>>
    /\ prev_len = -1
    /\ len = 0
    /\ td_prepared = {}
    /\ store_pc = "unused"

\* no compiler thread runs
InitConcurrentUnused ==
    /\ mtd_record = <<>>
    /\ mcs_cached = FALSE
    /\ lock_holder = 0
    /\ thr = <<>>
    /\ noticed_so_far = <<>>

\* no static field is tracked
InitFieldInitUnused ==
    /\ fieldinit_sequence_index = <<>>
    /\ fieldinit_count = 0
    /\ numbered_by_setup = {}
    /\ fi_thr = <<>>
    /\ fi_calls = <<>>
    /\ fi_true = <<>>

\* no record is compared
InitOrderUnused ==
    /\ clinit_sequence_index = <<>>
    /\ mtd_klass = <<>>
    /\ last_compile_id = <<>>
    /\ tdata_cmp_last = [op |-> "none"]

\* no compilation is recorded
InitMakeUnused ==
    /\ compile_list = <<>>
    /\ make_lock = 0
    /\ make_thr = <<>>
    /\ make_returned = {}

\* nothing is observed
InitLazyUnused ==
    /\ have_data = FALSE
    /\ collect_data = FALSE
    /\ td_set = <<>>
    /\ td_cached = <<>>
    /\ td_lock = 0
    /\ lazy_thr = <<>>
    /\ td_allocated = 0
    /\ td_returned = {}
    /\ td_added = {}

\* No dump attempt is made
InitAlternateUnused ==
    /\ tables_allocated = FALSE
    /\ attempt_pc = "idle"
    /\ attempt_empty = FALSE
    /\ attempt_log = <<>>
    /\ post_dumps = 0
    /\ attempt_asserts = {}

\* No call of setup_static_fields is made
InitSetupUnused ==
    /\ holder_fields = <<>>
    /\ static_fields = 0
    /\ no_static_fields = 0
    /\ setup_fieldinit_count = 0
    /\ setup_arrays = <<>>
    /\ setup_deleted = {}
    /\ setup_installs = 0
    /\ setup_thr = <<>>

InitMoreUnused ==
    /\ InitRelocateUnused
    /\ InitExitUnused
    /\ InitCompareUnused
    /\ InitStoreUnused
    /\ InitConcurrentUnused
    /\ InitFieldInitUnused
    /\ InitOrderUnused
    /\ InitMakeUnused
    /\ InitLazyUnused
    /\ InitAlternateUnused
    /\ InitSetupUnused

InitRestUnused ==
    /\ InitValidateUnused
    /\ InitTrainingUnused
    /\ InitDoitUnused
    /\ InitMoreUnused

InitRuntimeUnused ==
    /\ archived = <<>>
    /\ UseSharedSpaces = FALSE
    /\ has_platform_or_app_classes = FALSE
    /\ is_loaded = {}
    /\ preload_java_base_only = TRUE
    /\ class_preloading_finished = FALSE
    /\ rt = RuntimeIdle
    /\ rt_calls = 0
    /\ rt_log = <<>>

InitTables ==
    /\ vm_classes = NullTable
    /\ preloaded_classes = NullTable
    /\ processed_classes = NullTable
    /\ platform_initiated_classes = NullTable
    /\ app_initiated_classes = NullTable
    /\ num_vm_klasses = 0
    /\ record_java_base_only = TRUE
    /\ static_preloaded_klasses = NoPreloadedKlasses
    /\ dynamic_preloaded_klasses = NoPreloadedKlasses
    /\ dump = "idle"
    /\ recorded = FALSE
    /\ assert_failed = {}
    /\ last = NoCall

InitDump ==
    /\ klass = <<>>
    /\ shared = {}
    /\ run = "static"
    /\ PreloadSharedClasses \in BOOLEAN
    /\ InitTables

Init ==
    /\ InitRestUnused
    /\ InitDump
    /\ is_linked = <<>>
    /\ constants = <<>>
    /\ InitRuntimeUnused

NextDump ==
    \/ LoadClass
    \/ Initialize
    \/ RecordPreloadedKlasses
    \/ Dispose
    \/ StartDynamicRun

SpecDump == Init /\ [][NextDump]_vars

\* the dumps, with the constant pools' resolved classes put to the oracle
NextOracle ==
    \/ LoadClass
    \/ Initialize
    \/ RecordPreloadedKlasses
    \/ CanArchiveResolvedKlass
    \/ Dispose
    \/ StartDynamicRun

SpecOracle == Init /\ [][NextOracle]_vars

\* the dumps, with the constant pools' resolved fields put to the oracle
NextField ==
    \/ LoadClass
    \/ Initialize
    \/ RecordPreloadedKlasses
    \/ CanArchiveResolvedField
    \/ Dispose
    \/ StartDynamicRun

SpecField == Init /\ [][NextField]_vars

\* ------------------------------------------- dumptime_resolve_constants
\* the entries of a constant pool
MaxCpLen == 2

DumpSharedSpaces == run = "static"

UnresolvedClassEntry == [tag |-> "UnresolvedClass", resolved |-> FALSE]
\* a JVM_CONSTANT_String entry; resolved when resolved_references holds its string
StringEntry == [tag |-> "String", resolved |-> FALSE]

\* variant: the out-of-memory error of interning is cleared
resolve_string_swallows(cp, cp_index, oom_at) ==
    IF ~DumpSharedSpaces \/ cp[cp_index].resolved \/ oom_at = cp_index
    THEN [cp |-> cp, exception |-> FALSE]
    ELSE [cp |-> [cp EXCEPT ![cp_index].resolved = TRUE], exception |-> FALSE]

\* ClassPrelinker::resolve_string: the pool afterwards and whether an exception
\* is pending.  Interning the string of entry oom_at runs out of memory.
resolve_string(cp, cp_index, oom_at) ==
    IF ~DumpSharedSpaces THEN [cp |-> cp, exception |-> FALSE]
    ELSE IF cp[cp_index].resolved THEN [cp |-> cp, exception |-> FALSE]
    ELSE IF oom_at = cp_index THEN [cp |-> cp, exception |-> TRUE]
    ELSE [cp |-> [cp EXCEPT ![cp_index].resolved = TRUE], exception |-> FALSE]

RECURSIVE resolve_entries(_, _, _)
\* for (cp_index = 1; cp_index < cp->length(); cp_index++) switch (tag) ...
resolve_entries(cp, cp_index, oom_at) ==
    IF cp_index > Len(cp) THEN [cp |-> cp, exception |-> FALSE]
    ELSE IF cp[cp_index].tag = "String"
    THEN LET r == resolve_string(cp, cp_index, oom_at) IN
         IF r.exception THEN r
         ELSE resolve_entries(r.cp, cp_index + 1, oom_at)
    ELSE resolve_entries(cp, cp_index + 1, oom_at)

\* variant: the processed marker is ignored
already_resolved_never(first_time) == FALSE

\* if (!first_time) return;
already_resolved(first_time) == ~first_time

\* ClassPrelinker::dumptime_resolve_constants(ik, THREAD)
DumptimeResolveConstants ==
    /\ UNCHANGED restVars
    /\ dump = "initialized"
    /\ \E ik \in Loaded : \E oom_at \in 0..Len(constants[ik]) :
        LET p == PutIfAbsent(processed_classes, ik)
            r == resolve_entries(constants[ik], 1, oom_at)
            again == last.op = "resolve" /\ last.klass = ik
        IN  IF ~is_linked[ik]
            THEN /\ last' = [op |-> "resolve", klass |-> ik, exception |-> FALSE,
                             again |-> again, oom |-> 0]
                 /\ UNCHANGED <<processed_classes, constants>>
            ELSE /\ processed_classes' = p.table
                 /\ IF already_resolved(p.created)
                    THEN /\ last' = [op |-> "resolve", klass |-> ik, exception |-> FALSE,
                                     again |-> again, oom |-> 0]
                         /\ UNCHANGED constants
                    ELSE /\ constants' = [constants EXCEPT ![ik] = r.cp]
                         /\ last' = [op |-> "resolve", klass |-> ik,
                                     exception |-> r.exception, again |-> again,
                                     oom |-> oom_at]
    /\ UNCHANGED <<klass, shared, run, PreloadSharedClasses, vm_classes, preloaded_classes,
                   platform_initiated_classes, app_initiated_classes, num_vm_klasses,
                   seqVars, dump, recorded, assert_failed, is_linked, rtVars>>

\* InstanceKlass::link_class, by the running program or by link_shared_classes
LinkClass ==
    /\ UNCHANGED restVars
    /\ \E ik \in Loaded :
        /\ ~is_linked[ik]
        /\ is_linked' = [is_linked EXCEPT ![ik] = TRUE]
    /\ last' = NoCall
    /\ UNCHANGED <<klass, shared, run, PreloadSharedClasses, tableVars, seqVars, dump,
                   recorded, assert_failed, constants, rtVars>>

PlainKlass ==
    [loader_type |-> "app", module |-> "unnamed", is_hidden |-> FALSE,
     scp_in_named_module |-> FALSE, scp_is_modules_image |-> FALSE, vm_root |-> FALSE,
     java_super |-> NoKlass, local_interfaces |-> <<>>]

ConstantPools == [1..MaxCpLen -> {UnresolvedClassEntry, StringEntry}]

\* Classes with their constant pools, some linked, at the start of a dump
InitResolve ==
    /\ InitRestUnused
    /\ klass = [k \in 1..NumKlasses |-> PlainKlass]
    /\ shared = {}
    /\ run \in {"static", "dynamic"}
    /\ PreloadSharedClasses = TRUE
    /\ InitTables
    /\ is_linked \in [1..NumKlasses -> BOOLEAN]
    /\ constants \in [1..NumKlasses -> ConstantPools]
    /\ InitRuntimeUnused

NextResolve ==
    \/ Initialize
    \/ LinkClass
    \/ DumptimeResolveConstants

SpecResolve == InitResolve /\ [][NextResolve]_vars

\* ------------------------------------------------------- runtime_preload
\* the most classes in the mapped archives
NumArchived == 2

\* the callers' order: java.base only, the rest of boot, platform, app
CallerLoaders == <<"boot", "boot", "platform", "app">>

HolderName == "java/lang/invoke/Invokers$Holder"
PlainName == "p/C"

\* LambdaFormInvokers::may_be_regenerated_class
may_be_regenerated_class(name) == name = HolderName

\* A class of a mapped archive: the archive and the sequence it was recorded
\* in, its name, and the initiated-only sequence that also lists it.  A
\* dynamic dump records no initiated-only sequence.
ArchivedEntries ==
    { e \in [archive : {"static", "dynamic"},
             slot : {"boot", "boot2", "platform", "app"},
             name : {HolderName, PlainName},
             initiated : {"none", "platform", "app"}] :
        /\ e.name = HolderName => e.slot = "boot"
        /\ e.initiated = "platform" => e.slot \in {"boot", "boot2"}
        /\ e.initiated = "app" => e.slot # "app"
        /\ e.archive = "dynamic" => e.initiated = "none" }

Archived == 1..Len(archived)

\* the classes of S in the order the archive holds them
InArchiveOrder(S) ==
    SelectSeq([i \in Archived |-> i], LAMBDA ik : ik \in S)

\* what serialize() reads back for one archive
MappedTable(archive) ==
    IF \A ik \in Archived : archived[ik].archive # archive
    THEN NoPreloadedKlasses
    ELSE LET In(slot) == ArrayOf(InArchiveOrder({ ik \in Archived :
                 archived[ik].archive = archive /\ archived[ik].slot = slot }))
             Initiated(loader) ==
                 IF archive = "dynamic" THEN NullArray
                 ELSE ArrayOf(InArchiveOrder({ ik \in Archived :
                     archived[ik].archive = archive /\ archived[ik].initiated = loader }))
         IN  [boot |-> In("boot"), boot2 |-> In("boot2"),
              platform |-> In("platform"), app |-> In("app"),
              platform_initiated |-> Initiated("platform"),
              app_initiated |-> Initiated("app")]

PreloadedTable(table) ==
    IF table = "static" THEN static_preloaded_klasses ELSE dynamic_preloaded_klasses

\* the arrays runtime_preload(table, loader) picks
initiated_klasses(table, loader) ==
    IF loader = "boot" THEN NullArray
    ELSE IF loader = "platform" THEN PreloadedTable(table).platform_initiated
    ELSE PreloadedTable(table).app_initiated

\* variant: the boot loader always replays the java.base sequence
preloaded_klasses_base_only(table, loader) ==
    IF loader = "boot" THEN PreloadedTable(table).boot
    ELSE IF loader = "platform" THEN PreloadedTable(table).platform
    ELSE PreloadedTable(table).app

preloaded_klasses(table, loader) ==
    IF loader = "boot"
    THEN IF preload_java_base_only THEN PreloadedTable(table).boot
         ELSE PreloadedTable(table).boot2
    ELSE IF loader = "platform" THEN PreloadedTable(table).platform
    ELSE PreloadedTable(table).app

NoActual == [kind |-> "none", same |-> FALSE, is_shared |-> FALSE, name |-> ""]

\* What SystemDictionary::resolve_or_null(ik->name(), loader) can give: ik, a
\* different class of that name, a pending exception, or null
Actuals(ik) ==
    {[kind |-> "klass", same |-> TRUE, is_shared |-> TRUE, name |-> archived[ik].name]}
    \cup {[kind |-> "klass", same |-> FALSE, is_shared |-> sh, name |-> archived[ik].name] :
             sh \in BOOLEAN}
    \cup {[NoActual EXCEPT !.kind = "exception"], [NoActual EXCEPT !.kind = "null"]}

\* variant: any archived class of the same name is exempt
is_regenerated_copy_by_name(expected, actual) ==
    actual.is_shared /\ archived[expected].name = actual.name

\* the condition under which jvmti_agent_error returns
is_regenerated_copy(expected, actual) ==
    /\ actual.is_shared
    /\ archived[expected].name = actual.name
    /\ may_be_regenerated_class(archived[expected].name)

\* variant: loaded entries are resolved again
needs_resolution_always(ik) == TRUE

\* if (!ik->is_loaded())
needs_resolution(ik) == ik \notin is_loaded

\* variant: a store that flips the flag
release_store_flip(old, value) == old # value

\* Atomic::release_store(&_class_preloading_finished, value): the flag afterwards
release_store(old, value) == value

\* variant: every pass of a loader other than boot counts as the last
is_last_pass_any(loader) == loader # "boot"

\* loader() != nullptr && loader() == SystemDictionary::java_system_loader()
is_last_pass(loader) == loader # "boot" /\ is_system_class_loader(loader)

\* ClassPrelinker::class_preloading_finished()
ClassPreloadingFinished ==
    IF ~UseSharedSpaces THEN TRUE ELSE class_preloading_finished

\* the rest of runtime_preload(current, loader) once the replay has returned
FinishPreload(exception) ==
    /\ preload_java_base_only' = FALSE
    /\ class_preloading_finished' =
           IF is_last_pass(rt.loader)
           THEN release_store(class_preloading_finished, TRUE)
           ELSE class_preloading_finished
    /\ rt' = [rt EXCEPT !.pc = IF exception THEN "exited" ELSE "idle",
                        !.exception = exception]

\* resolve_or_null gave actual for the entry ik at rt.i
Resolved(phase, ik, actual) ==
    /\ rt_log' = Append(rt_log, [phase |-> phase, table |-> rt.table, idx |-> rt.i,
                                 klass |-> ik, loaded_before |-> ik \in is_loaded,
                                 resolved |-> TRUE, actual |-> actual])
    /\ IF actual.kind = "exception"
       THEN FinishPreload(TRUE) /\ UNCHANGED is_loaded
       ELSE IF actual.kind = "null"
       THEN /\ rt' \in {[rt EXCEPT !.pc = "crashed"], [rt EXCEPT !.pc = "aborted"]}
            /\ UNCHANGED <<is_loaded, preload_java_base_only, class_preloading_finished>>
       ELSE IF actual.same
       THEN /\ is_loaded' = is_loaded \cup {ik}
            /\ rt' = [rt EXCEPT !.i = @ + 1]
            /\ UNCHANGED <<preload_java_base_only, class_preloading_finished>>
       ELSE /\ rt' = IF is_regenerated_copy(ik, actual)
                     THEN [rt EXCEPT !.i = @ + 1]
                     ELSE [rt EXCEPT !.pc = "aborted"]
            /\ UNCHANGED <<is_loaded, preload_java_base_only, class_preloading_finished>>

\* ClassPrelinker::runtime_preload(current, loader) up to the first replay
RuntimePreloadEnter ==
    /\ UNCHANGED restVars
    /\ rt.pc = "idle"
    /\ rt_calls < Len(CallerLoaders)
    /\ rt_calls' = rt_calls + 1
    /\ LET loader == CallerLoaders[rt_calls + 1] IN
       IF ~UseSharedSpaces
       THEN /\ rt_log' = <<>>
            /\ UNCHANGED <<rt, class_preloading_finished>>
       ELSE IF loader # "boot" /\ ~has_platform_or_app_classes
       THEN /\ class_preloading_finished' = release_store(class_preloading_finished, TRUE)
            /\ rt_log' = <<>>
            /\ UNCHANGED rt
       ELSE /\ rt' = [pc |-> "initiated", loader |-> loader, table |-> "static", i |-> 1,
                      exception |-> FALSE]
            /\ rt_log' = <<>>
            /\ UNCHANGED class_preloading_finished
    /\ UNCHANGED <<dumpVars, cpVars, archived, UseSharedSpaces,
                   has_platform_or_app_classes, is_loaded, preload_java_base_only>>

\* one round of the loop over initiated_klasses
InitiatedStep ==
    /\ UNCHANGED restVars
    /\ rt.pc = "initiated"
    /\ LET arr == initiated_klasses(rt.table, rt.loader) IN
       IF arr.null \/ rt.i > Len(arr.elems)
       THEN /\ rt' = [rt EXCEPT !.pc = "preload", !.i = 1]
            /\ UNCHANGED <<rt_log, is_loaded, preload_java_base_only,
                           class_preloading_finished>>
       ELSE \E actual \in Actuals(arr.elems[rt.i]) :
                Resolved("initiated", arr.elems[rt.i], actual)
    /\ UNCHANGED <<dumpVars, cpVars, archived, UseSharedSpaces,
                   has_platform_or_app_classes, rt_calls>>

\* one round of the loop over preloaded_klasses, and the return to the caller
PreloadStep ==
    /\ UNCHANGED restVars
    /\ rt.pc = "preload"
    /\ LET arr == preloaded_klasses(rt.table, rt.loader) IN
       IF arr.null \/ rt.i > Len(arr.elems)
       THEN /\ IF rt.table = "static"
               THEN /\ rt' = [rt EXCEPT !.pc = "initiated", !.table = "dynamic", !.i = 1]
                    /\ UNCHANGED <<preload_java_base_only, class_preloading_finished>>
               ELSE FinishPreload(FALSE)
            /\ UNCHANGED <<rt_log, is_loaded>>
       ELSE LET ik == arr.elems[rt.i] IN
            IF needs_resolution(ik)
            THEN \E actual \in Actuals(ik) : Resolved("preload", ik, actual)
            ELSE /\ rt_log' = Append(rt_log,
                         [phase |-> "preload", table |-> rt.table, idx |-> rt.i,
                          klass |-> ik, loaded_before |-> ik \in is_loaded,
                          resolved |-> FALSE, actual |-> NoActual])
                 /\ rt' = [rt EXCEPT !.i = @ + 1]
                 /\ UNCHANGED <<is_loaded, preload_java_base_only,
                                class_preloading_finished>>
    /\ UNCHANGED <<dumpVars, cpVars, archived, UseSharedSpaces,
                   has_platform_or_app_classes, rt_calls>>

\* Java code that runs between the calls loads an archived class
ClassLoadedElsewhere ==
    /\ UNCHANGED restVars
    /\ rt.pc = "idle"
    /\ rt_calls \in 1..(Len(CallerLoaders) - 1)
    /\ UseSharedSpaces
    /\ \E ik \in Archived \ is_loaded : is_loaded' = is_loaded \cup {ik}
    /\ UNCHANGED <<dumpVars, cpVars, archived, UseSharedSpaces,
                   has_platform_or_app_classes, preload_java_base_only,
                   class_preloading_finished, rt, rt_calls, rt_log>>

\* The archives are mapped and nothing has been preloaded
InitPreload ==
    /\ InitRestUnused
    /\ klass = <<>>
    /\ shared = {}
    /\ run = "static"
    /\ PreloadSharedClasses = TRUE
    /\ vm_classes = NullTable
    /\ preloaded_classes = NullTable
    /\ processed_classes = NullTable
    /\ platform_initiated_classes = NullTable
    /\ app_initiated_classes = NullTable
    /\ num_vm_klasses = 0
    /\ record_java_base_only = TRUE
    /\ dump = "idle"
    /\ recorded = FALSE
    /\ assert_failed = {}
    /\ last = NoCall
    /\ is_linked = <<>>
    /\ constants = <<>>
    /\ UseSharedSpaces \in BOOLEAN
    /\ has_platform_or_app_classes \in BOOLEAN
    /\ archived \in UNION { [1..n -> ArchivedEntries] : n \in 0..NumArchived }
    /\ UseSharedSpaces \/ (archived = <<>> /\ ~has_platform_or_app_classes)
    /\ static_preloaded_klasses = MappedTable("static")
    /\ dynamic_preloaded_klasses = MappedTable("dynamic")
    /\ is_loaded = {}
    /\ preload_java_base_only = TRUE
    /\ class_preloading_finished = FALSE
    /\ rt = RuntimeIdle
    /\ rt_calls = 0
    /\ rt_log = <<>>

NextPreload ==
    \/ RuntimePreloadEnter
    \/ InitiatedStep
    \/ PreloadStep
    \/ ClassLoadedElsewhere

SpecPreload == InitPreload /\ [][NextPreload]_vars

\* The dump and the runtime at rest, for the specifications of other parts
InitIdle ==
    /\ klass = <<>>
    /\ shared = {}
    /\ run = "static"
    /\ PreloadSharedClasses = TRUE
    /\ InitTables
    /\ is_linked = <<>>
    /\ constants = <<>>
    /\ InitRuntimeUnused

\* ----------------------------------------------- DynamicArchive::validate
\* MetaspaceShared::n_regions, kept small
NRegions == 2
\* the largest checksum
MaxCrc == 1

Checksums == [crc : 0..MaxCrc, region_crc : [1..NRegions -> 0..MaxCrc]]

\* DynamicArchiveBuilder::init_header: the header's record of the base archive
init_header(base) ==
    [crc |-> base.crc, region_crc |-> [i \in 1..NRegions |-> base.region_crc[i]]]

RECURSIVE validate_regions(_, _, _)
\* for (int i = 0; i < n_regions; i++) if (... != ...) return false;
validate_regions(header, base, i) ==
    IF i > NRegions THEN TRUE
    ELSE IF header.region_crc[i] # base.region_crc[i] THEN FALSE
    ELSE validate_regions(header, base, i + 1)

\* variant: only the header checksum is compared
validate_header_only(header, base) == header.crc = base.crc

\* DynamicArchive::validate(dynamic_info)
validate(header, base) ==
    IF header.crc # base.crc THEN FALSE
    ELSE validate_regions(header, base, 1)

\* A dynamic dump on top of the current base archive writes its header
InitHeader ==
    /\ dynamic_header' = init_header(base_info)
    /\ validated' = [op |-> "none"]
    /\ UNCHANGED <<dumpVars, cpVars, rtVars, moreVars, tdVars, ddVars, base_info>>

\* A later run maps some base archive
MapBaseArchive ==
    /\ base_info' \in Checksums \ {base_info}
    /\ validated' = [op |-> "none"]
    /\ UNCHANGED <<dumpVars, cpVars, rtVars, moreVars, tdVars, ddVars, dynamic_header>>

Validate ==
    /\ validated' = [op |-> "validate", header |-> dynamic_header, base |-> base_info,
                     ret |-> validate(dynamic_header, base_info)]
    /\ UNCHANGED <<dumpVars, cpVars, rtVars, moreVars, tdVars, ddVars, base_info, dynamic_header>>

\* Some base archive is mapped and a dynamic archive of any origin is opened
InitValidate ==
    /\ InitIdle
    /\ InitTrainingUnused
    /\ InitDoitUnused
    /\ InitMoreUnused
    /\ base_info \in Checksums
    /\ dynamic_header \in Checksums
    /\ validated = [op |-> "none"]

NextValidate ==
    \/ InitHeader
    \/ MapBaseArchive
    \/ Validate

SpecValidate == InitValidate /\ [][NextValidate]_vars

\* ------------------------------------------ compiler/methodTrainingData
\* the methods that get compiled
NumMethods == 2
\* the highest compilation level
MaxLevel == 3

CompLevel_simple == 1

\* name_and_sig_as_C_string of the methods; two methods can have one name
MethodNames == {"A.m()V", "B.m()V"}

Methods == 1..NumMethods
Levels == 0..MaxLevel

NoRecord == [present |-> FALSE, level |-> 0, only_inlined |-> FALSE]
NoCounters == [present |-> FALSE, mtd |-> ""]

\* MethodTrainingData(method_name, level, inlined)
NewMethodTrainingData(level, inlined) ==
    [present |-> TRUE, level |-> level, only_inlined |-> inlined]

Records == { NewMethodTrainingData(l, i) : l \in Levels, i \in BOOLEAN }

need_data == StoreProfiles
has_data == LoadProfiles

\* variant: the flag follows the last compilation
update_only_inlined_last(only_inlined, inlined) == inlined

\* if (mtd->only_inlined() && !inlined) mtd->set_only_inlined(false);
update_only_inlined(only_inlined, inlined) ==
    IF only_inlined /\ ~inlined THEN FALSE ELSE only_inlined

\* variant: the simple level is treated like every other level
update_level_max(old, level) == IF level > old THEN level ELSE old

\* if (level == CompLevel_simple) set_level(CompLevel_simple);
\* else if (level > mtd->level()) set_level(level);
update_level(old, level) ==
    IF level = CompLevel_simple THEN CompLevel_simple
    ELSE IF level > old THEN level
    ELSE old

Observe(obs, inlined) ==
    [obs EXCEPT !.calls = TRUE, !.all_inlined = @ /\ inlined]

\* MethodTrainingData::notice_compilation(method, level, inlined); built says
\* whether Method::build_method_counters succeeds
NoticeCompilation ==
    /\ \E m \in Methods : \E level \in Levels : \E inlined \in BOOLEAN :
       \E built \in (IF method_counters[m].present THEN {TRUE} ELSE BOOLEAN) :
        LET name == method_names[m]
            mcs == method_counters[m]
            cached == IF mcs.present THEN mcs.mtd ELSE ""
            v == method_training_data_set[name]
            mtd == IF cached # "" THEN cached ELSE name
            found == IF cached # "" \/ v.present THEN method_training_data_set[mtd]
                     ELSE NewMethodTrainingData(level, inlined)
            after == [found EXCEPT
                         !.only_inlined = update_only_inlined(@, inlined),
                         !.level = update_level(@, level)]
        IN  IF ~need_data
            THEN /\ noticed' = [op |-> "ignored", mtd |-> name, level |-> level,
                                inlined |-> inlined]
                 /\ UNCHANGED <<method_training_data_set, method_counters,
                                observed_of_record>>
            ELSE /\ method_training_data_set' =
                        [method_training_data_set EXCEPT ![mtd] = after]
                 /\ method_counters' =
                        IF cached # "" THEN method_counters
                        ELSE IF mcs.present \/ built
                        THEN [method_counters EXCEPT ![m] = [present |-> TRUE, mtd |-> mtd]]
                        ELSE method_counters
                 /\ noticed' = [op |-> "notice", mtd |-> mtd, level |-> level,
                                inlined |-> inlined]
                 /\ observed_of_record' =
                        [observed_of_record EXCEPT ![mtd] = Observe(@, inlined)]
    /\ UNCHANGED <<dumpVars, cpVars, rtVars, moreVars, vaVars, ddVars, StoreProfiles, LoadProfiles,
                   method_names>>

\* MethodTrainingData::load_profiles(): file holds the line of each name; a
\* line whose name already has a record is skipped, so such lines are left out.
\* The profiles are loaded before the first compilation.
LoadProfilesFile ==
    /\ noticed.op = "none"
    /\ \E file \in { f \in [MethodNames -> Records \cup {NoRecord}] :
                         \A n \in MethodNames :
                             ~has_data \/ method_training_data_set[n].present
                                 => ~f[n].present } :
        IF ~has_data
        THEN UNCHANGED <<method_training_data_set, observed_of_record>>
        ELSE /\ method_training_data_set' =
                    [n \in MethodNames |->
                        IF method_training_data_set[n].present
                        THEN method_training_data_set[n] ELSE file[n]]
             /\ observed_of_record' =
                    [n \in MethodNames |->
                        IF ~method_training_data_set[n].present /\ file[n].present
                        THEN [observed_of_record[n] EXCEPT
                                  !.loaded = TRUE, !.loaded_flag = file[n].only_inlined]
                        ELSE observed_of_record[n]]
    /\ noticed' = [op |-> "load"]
    /\ UNCHANGED <<dumpVars, cpVars, rtVars, moreVars, vaVars, ddVars, StoreProfiles, LoadProfiles,
                   method_names, method_counters>>

\* The flags are set and no method has been compiled
InitTraining ==
    /\ InitIdle
    /\ InitValidateUnused
    /\ InitDoitUnused
    /\ InitMoreUnused
    /\ StoreProfiles \in BOOLEAN
    /\ LoadProfiles \in BOOLEAN
    /\ method_names \in { f \in [Methods -> MethodNames] : f[1] = "A.m()V" }
    /\ method_training_data_set = [n \in MethodNames |-> NoRecord]
    /\ method_counters = [m \in Methods |-> NoCounters]
    /\ noticed = [op |-> "none"]
    /\ observed_of_record =
           [n \in MethodNames |-> [calls |-> FALSE, all_inlined |-> TRUE,
                                   loaded |-> FALSE, loaded_flag |-> TRUE]]

NextTraining ==
    \/ NoticeCompilation
    \/ LoadProfilesFile

SpecTraining == InitTraining /\ [][NextTraining]_vars

\* ------------------------------------------- DynamicArchiveBuilder::doit
\* variant: the methods are sorted before the tables are written
DoitCallsSortFirst ==
    << "clone_dumptime_tables", "init_header", "gather_source_objs", "reserve_buffer",
       "dump_rw_metadata", "dump_ro_metadata",
       "relocate_metaspaceobj_embedded_pointers", "relocate_roots",
       "sort_methods",
       "SymbolTable::write_to_archive", "SystemDictionaryShared::write_to_archive",
       "ClassPrelinker::record_preloaded_klasses", "TrainingData::dump_training_data",
       "serialize",
       "make_klasses_shareable",
       "adjust_lambda_proxy_class_dictionary", "adjust_method_info_dictionary",
       "adjust_training_data_dictionary",
       "relocate_to_requested", "write_archive", "release_header", "post_dump",
       "restore_dumptime_tables" >>

\* The calls of doit() after the test for an empty dump-time table, in the
\* order of its statements; "serialize" stands for the five serialize calls
DoitCalls ==
    << "clone_dumptime_tables", "init_header", "gather_source_objs", "reserve_buffer",
       "dump_rw_metadata", "dump_ro_metadata",
       "relocate_metaspaceobj_embedded_pointers", "relocate_roots",
       "SymbolTable::write_to_archive", "SystemDictionaryShared::write_to_archive",
       "ClassPrelinker::record_preloaded_klasses", "TrainingData::dump_training_data",
       "serialize",
       "sort_methods", "make_klasses_shareable",
       "adjust_lambda_proxy_class_dictionary", "adjust_method_info_dictionary",
       "adjust_training_data_dictionary",
       "relocate_to_requested", "write_archive", "release_header", "post_dump",
       "restore_dumptime_tables" >>

\* variant: the dump goes on without classes
is_dumptime_table_empty_never(empty) == FALSE

\* SystemDictionaryShared::is_dumptime_table_empty()
is_dumptime_table_empty(empty) == empty

\* variant: every class is taken as new
already_sorted_never(mirrors, ik) == FALSE

\* if (ik->java_mirror() == nullptr) return;
already_sorted(mirrors, ik) == ik \notin mirrors

\* variant: the pointers are cleared and never marked again
remark_pointers_never_mark(st, k, should_mark) ==
    [st EXCEPT !.marked = @ \ {k},
               !.log = Append(@, [op |-> "clear", klass |-> k])]

\* remark_pointers_for_instance_klass(k, should_mark): ArchivePtrMarker's
\* bits for the pointers embedded in k
remark_pointers_for_instance_klass(st, k, should_mark) ==
    IF should_mark
    THEN [st EXCEPT !.marked = @ \cup {k},
                    !.log = Append(@, [op |-> "mark", klass |-> k])]
    ELSE [st EXCEPT !.marked = @ \ {k},
                    !.log = Append(@, [op |-> "clear", klass |-> k])]

\* variant: the tables of every class are laid out again
needs_relayout_always(ik) == TRUE

\* if (ik->is_linked()) { initialize_vtable(); initialize_itable(); }
needs_relayout(ik) == is_linked[ik]

\* Method::sort_methods on methods() and default_methods(), then the v/i
\* tables of a linked class
sort_and_relayout(st, ik) ==
    [st EXCEPT !.log = @ \o <<[op |-> "sort", klass |-> ik]>>
                         \o (IF needs_relayout(ik)
                             THEN <<[op |-> "relayout", klass |-> ik]>> ELSE <<>>)]

RECURSIVE sort_methods_self_first(_, _)
RECURSIVE sort_methods(_, _)
RECURSIVE sort_methods_of(_, _, _)
\* variant: a class is sorted before its supertypes are visited
sort_methods_self_first(st, ik) ==
    IF ik = NoKlass \/ ik \in shared THEN st
    ELSE IF already_sorted(st.mirror, ik) THEN st
    ELSE LET a == remark_pointers_for_instance_klass(
                      [st EXCEPT !.mirror = @ \ {ik}], ik, FALSE)
             b == remark_pointers_for_instance_klass(sort_and_relayout(a, ik), ik, TRUE)
             c == sort_methods_self_first(b, java_super(ik))
         IN  sort_methods_of(c, local_interfaces(ik), 1)

\* DynamicArchiveBuilder::sort_methods(InstanceKlass*): st = [mirror, log,
\* marked], the classes with a java mirror, what was done so far and the
\* classes whose embedded pointers are marked.  A class without a superclass
\* stands for one whose superclass is java.lang.Object, which is in the base
\* archive.
sort_methods(st, ik) ==
    IF ik = NoKlass \/ ik \in shared THEN st
    ELSE IF already_sorted(st.mirror, ik) THEN st
    ELSE LET a == remark_pointers_for_instance_klass(
                      [st EXCEPT !.mirror = @ \ {ik}], ik, FALSE)
             b == sort_methods(a, java_super(ik))
             c == sort_methods_of(b, local_interfaces(ik), 1)
         IN  remark_pointers_for_instance_klass(sort_and_relayout(c, ik), ik, TRUE)

\* for (i = 0; i < len; i++) sort_methods(interfaces->at(i)), and the loop of
\* sort_methods() over klasses()
sort_methods_of(st, klasses, i) ==
    IF i > Len(klasses) THEN st
    ELSE sort_methods_of(sort_methods(st, klasses[i]), klasses, i + 1)

\* what a call of doit() does to the archive being built
ArchiveAfter(call) ==
    IF call = "init_header" THEN [archive_file EXCEPT !.header = TRUE]
    ELSE IF call = "reserve_buffer" THEN [archive_file EXCEPT !.buffer = TRUE]
    ELSE IF call = "write_archive"
    THEN [archive_file EXCEPT !.open = TRUE, !.regions = TRUE]
    ELSE IF call = "release_header" THEN [archive_file EXCEPT !.header = FALSE]
    ELSE archive_file

\* what sort_methods works on
SortState == [mirror |-> java_mirror, log |-> sort_log, marked |-> ptr_marked]

\* doit() up to the test for an empty dump-time table
DoitEnter ==
    /\ doit_pc = 0
    /\ doit_pc' = IF is_dumptime_table_empty(dumptime_table_empty)
                  THEN Len(DoitCalls) + 1 ELSE 1
    /\ UNCHANGED <<dumpVars, cpVars, rtVars, moreVars, vaVars, tdVars, dumptime_table_empty,
                   doit_log, builder_klasses, archive_file, java_mirror, sort_log,
                   ptr_marked>>

\* the next call of doit()
DoitStep ==
    /\ doit_pc \in 1..Len(DoitCalls)
    /\ LET call == DoitCalls[doit_pc]
           sorted == sort_methods_of(SortState, builder_klasses, 1)
       IN  /\ doit_pc' = doit_pc + 1
           /\ doit_log' = Append(doit_log, call)
           /\ archive_file' = ArchiveAfter(call)
           /\ IF call = "gather_source_objs"
              THEN builder_klasses' \in Orders(ArchivedKlasses)
              ELSE UNCHANGED builder_klasses
           /\ IF call = "sort_methods"
              THEN /\ java_mirror' = sorted.mirror
                   /\ sort_log' = sorted.log
                   /\ ptr_marked' = sorted.marked
              ELSE /\ UNCHANGED <<java_mirror, sort_log>>
                   \* relocate_metaspaceobj_embedded_pointers marks the pointers
                   \* embedded in each copied object
                   /\ ptr_marked' = IF call = "relocate_metaspaceobj_embedded_pointers"
                                    THEN Range(builder_klasses) ELSE ptr_marked
    /\ UNCHANGED <<dumpVars, cpVars, rtVars, moreVars, vaVars, tdVars, dumptime_table_empty>>

\* a class as sort_methods sees it
SortedKlass(super, interfaces) ==
    [PlainKlass EXCEPT !.java_super = super, !.local_interfaces = interfaces]

\* the hierarchies of n classes; a class of the base archive has its
\* supertypes there
Hierarchies(n) ==
    { h \in [1..n -> { SortedKlass(sup, ifs) :
                         sup \in 0..(n - 1),
                         ifs \in {<<>>} \cup { <<i>> : i \in 1..(n - 1) } }] :
        \A k \in 1..n :
            /\ h[k].java_super < k
            /\ \A i \in 1..Len(h[k].local_interfaces) : h[k].local_interfaces[i] < k }

\* The classes at the safepoint of a dynamic dump
InitDoit ==
    /\ InitTables
    /\ InitRuntimeUnused
    /\ InitValidateUnused
    /\ InitTrainingUnused
    /\ InitMoreUnused
    /\ run = "dynamic"
    /\ PreloadSharedClasses = TRUE
    /\ klass \in UNION { Hierarchies(n) : n \in 0..NumKlasses }
    /\ shared \in { S \in SUBSET (1..Len(klass)) :
                      \A k \in S : SuperTypes(k) \subseteq S }
    /\ is_linked \in [1..Len(klass) -> BOOLEAN]
    /\ constants = [k \in 1..Len(klass) |-> <<>>]
    /\ dumptime_table_empty = (ArchivedKlasses = {})
    /\ doit_pc = 0
    /\ doit_log = <<>>
    /\ builder_klasses = <<>>
    /\ archive_file = NoArchive
    /\ java_mirror = 1..Len(klass)
    /\ sort_log = <<>>
    /\ ptr_marked = {}

NextDoit ==
    \/ DoitEnter
    \/ DoitStep

SpecDoit == InitDoit /\ [][NextDoit]_vars

\* ------------------------------------------- pointer fields and relocation
NumObjs == 3
Objs == 1..NumObjs

\* A pointer: null, the address of a live object, of an object of the mapped
\* base archive, of an object's copy in the buffer, or of the place the copy
\* will have in the new archive
NullPtr == [space |-> "null", obj |-> NoKlass]
Ptr(space, o) == [space |-> space, obj |-> o]

\* the address of metadata object o in the dumping process
SrcPtr(o) ==
    IF o = NoKlass THEN NullPtr
    ELSE IF reloc_objs[o].status = "base" THEN Ptr("base", o) ELSE Ptr("live", o)

CopiedObjs == { o \in DOMAIN reloc_objs : reloc_objs[o].status = "copied" }
BaseObjs == { o \in DOMAIN reloc_objs : reloc_objs[o].status = "base" }

\* ArchiveBuilder::get_buffered_addr: the copy of a copied object, the object
\* itself when it is in the base archive; an address that was not archived
\* has no entry
get_buffered_addr(src_addr) ==
    IF src_addr.space = "base" THEN [ok |-> TRUE, addr |-> src_addr]
    ELSE IF src_addr.space = "live" /\ src_addr.obj \in CopiedObjs
    THEN [ok |-> TRUE, addr |-> Ptr("buffer", src_addr.obj)]
    ELSE [ok |-> FALSE, addr |-> src_addr]

\* a pointer field in the buffer and its bit in ArchivePtrMarker
Field(value, marked) == [value |-> value, marked |-> marked]

\* variant: the field is marked and keeps the live address
relocate_src_pointer_marks_only(ptr_loc) ==
    IF ptr_loc.value # NullPtr
    THEN [field |-> Field(ptr_loc.value, TRUE),
          crashed |-> ~get_buffered_addr(ptr_loc.value).ok]
    ELSE [field |-> ptr_loc, crashed |-> FALSE]

\* relocate_src_pointer_to_buffered(T* ptr_loc)
relocate_src_pointer_to_buffered(ptr_loc) ==
    IF ptr_loc.value # NullPtr
    THEN LET b == get_buffered_addr(ptr_loc.value)
         IN  [field |-> Field(b.addr, TRUE), crashed |-> ~b.ok]
    ELSE [field |-> ptr_loc, crashed |-> FALSE]

\* variant: the elements are stored and not marked
archive_klass_array_unmarked(tmp_array) ==
    [i \in 1..Len(tmp_array) |-> Field(tmp_array[i], FALSE)]

\* ClassPrelinker::archive_klass_array: at_put and mark_pointer per element
archive_klass_array(tmp_array) ==
    [i \in 1..Len(tmp_array) |-> Field(tmp_array[i], TRUE)]

\* ArchiveBuilder::relocate_to_requested on one field: a marked pointer into
\* the buffer becomes the requested address of the copy
to_requested(f) ==
    IF f.marked /\ f.value.space = "buffer"
    THEN Field(Ptr("requested", f.value.obj), TRUE)
    ELSE f

\* dump_rw_metadata, dump_ro_metadata: each object is copied as it is
CopyMetadataStep ==
    /\ reloc_pc = "start"
    /\ reloc_pc' = "copied"
    /\ embedded' = [o \in CopiedObjs |-> Field(SrcPtr(reloc_objs[o].ref), FALSE)]
    /\ UNCHANGED <<reloc_objs, klass_array, aot_data>>
    /\ UNCHANGED NotRelocate

\* relocate_metaspaceobj_embedded_pointers: the pointers embedded in the
\* copies are pointed at the copies and marked
RelocateEmbeddedPointers ==
    /\ reloc_pc = "copied"
    /\ reloc_pc' = "embedded"
    /\ embedded' = [o \in DOMAIN embedded |->
                       IF embedded[o].value = NullPtr THEN embedded[o]
                       ELSE Field(get_buffered_addr(embedded[o].value).addr, TRUE)]
    /\ UNCHANGED <<reloc_objs, klass_array, aot_data>>
    /\ UNCHANGED NotRelocate

MaxArray == 2

\* record_preloaded_klasses / record_initiated_klasses: the list holds
\* ArchiveBuilder::get_buffered_klass(ik) of classes of this dump or of the
\* base archive
RecordKlassArray ==
    /\ reloc_pc = "embedded"
    /\ reloc_pc' = "tables"
    /\ \E n \in 0..MaxArray : \E list \in [1..n -> CopiedObjs \cup BaseObjs] :
           klass_array' = archive_klass_array(
                              [i \in 1..n |-> get_buffered_addr(SrcPtr(list[i])).addr])
    /\ UNCHANGED <<reloc_objs, embedded, aot_data>>
    /\ UNCHANGED NotRelocate

\* dummy_aot_write_cache: k1 is java.lang.System, m its class initializer or
\* null, k2 the class HelloWorld of the system loader or null, cp its
\* constant pool.  k2->constants() with k2 == nullptr ends the process.
DummyAotWriteCache ==
    /\ reloc_pc = "tables"
    /\ \E k1 \in BaseObjs, m \in BaseObjs \cup {NoKlass},
          k2 \in (DOMAIN reloc_objs \ BaseObjs) \cup {NoKlass} :
        IF k2 = NoKlass
        THEN reloc_pc' = "crashed" /\ UNCHANGED aot_data
        ELSE \E cp \in { o \in DOMAIN reloc_objs :
                           reloc_objs[o].status = reloc_objs[k2].status } :
             LET r1 == relocate_src_pointer_to_buffered(Field(SrcPtr(k1), FALSE))
                 r2 == relocate_src_pointer_to_buffered(Field(SrcPtr(m), FALSE))
                 r3 == relocate_src_pointer_to_buffered(Field(SrcPtr(k2), FALSE))
                 r4 == relocate_src_pointer_to_buffered(Field(SrcPtr(cp), FALSE))
             IN  IF r1.crashed \/ r2.crashed \/ r3.crashed \/ r4.crashed
                 THEN reloc_pc' = "crashed" /\ UNCHANGED aot_data
                 ELSE /\ reloc_pc' = "aot"
                      /\ aot_data' = [_k1 |-> r1.field, _m |-> r2.field,
                                      _k2 |-> r3.field, _cp |-> r4.field,
                                      src |-> [_k1 |-> k1, _m |-> m, _k2 |-> k2, _cp |-> cp]]
    /\ UNCHANGED <<reloc_objs, embedded, klass_array>>
    /\ UNCHANGED NotRelocate

AotFields == {"_k1", "_m", "_k2", "_cp"}

\* relocate_to_requested()
RelocateToRequested ==
    /\ reloc_pc = "aot"
    /\ reloc_pc' = "requested"
    /\ embedded' = [o \in DOMAIN embedded |-> to_requested(embedded[o])]
    /\ klass_array' = [i \in DOMAIN klass_array |-> to_requested(klass_array[i])]
    /\ aot_data' = [f \in DOMAIN aot_data |->
                       IF f \in AotFields THEN to_requested(aot_data[f]) ELSE aot_data[f]]
    /\ UNCHANGED reloc_objs
    /\ UNCHANGED NotRelocate

\* The metadata objects of a dynamic dump: java.lang.System is in the base
\* archive; an object is in the base archive, copied into the buffer, or
\* excluded from the dump; a copied object points at nothing or at an object
\* that is archived
InitRelocate ==
    /\ InitIdle
    /\ InitValidateUnused
    /\ InitTrainingUnused
    /\ InitDoitUnused
    /\ reloc_objs \in { q \in [Objs -> [status : {"base", "copied", "excluded"},
                                        ref : Objs \cup {NoKlass}]] :
                          /\ q[1].status = "base"
                          /\ \A o \in Objs :
                                 IF q[o].status = "copied"
                                 THEN q[o].ref # NoKlass => q[q[o].ref].status # "excluded"
                                 ELSE q[o].ref = NoKlass }
    /\ InitExitUnused
    /\ InitCompareUnused
    /\ InitStoreUnused
    /\ InitConcurrentUnused
    /\ InitFieldInitUnused
    /\ InitOrderUnused
    /\ InitMakeUnused
    /\ InitLazyUnused
    /\ InitAlternateUnused
    /\ InitSetupUnused
    /\ reloc_pc = "start"
    /\ embedded = <<>>
    /\ klass_array = <<>>
    /\ aot_data = <<>>

NextRelocate ==
    \/ CopyMetadataStep
    \/ RelocateEmbeddedPointers
    \/ RecordKlassArray
    \/ DummyAotWriteCache
    \/ RelocateToRequested

SpecRelocate == InitRelocate /\ [][NextRelocate]_vars

\* ------------------------- check_for_dynamic_dump, dump_at_exit, dump_for_jcmd
MaxJcmd == 3

\* the flags, the VM and the log as the three functions see them; base_loaded
\* is UseSharedSpaces of this process
ExitState ==
    [DynamicDumpSharedSpaces |-> DynamicDumpSharedSpaces,
     vm_state |-> vm_state, pending_exception |-> pending_exception,
     cds_log |-> cds_log, vm_ops |-> vm_ops]

\* MetaspaceShared::unrecoverable_loading_error(): the VM exits during
\* initialization
unrecoverable_loading_error(st) == [st EXCEPT !.vm_state = "exited"]

\* variant: dynamic dumping stays enabled without a base archive
check_for_dynamic_dump_keeps_flag(st) ==
    IF st.DynamicDumpSharedSpaces /\ ~base_loaded
    THEN IF RecordDynamicDumpInfo
         THEN unrecoverable_loading_error(
                  [st EXCEPT !.cds_log = Append(@, "error: -XX:+RecordDynamicDumpInfo")])
         ELSE [st EXCEPT !.cds_log = Append(@, "warning: -XX:ArchiveClassesAtExit")]
    ELSE st

\* DynamicArchive::check_for_dynamic_dump
check_for_dynamic_dump(st) ==
    IF st.DynamicDumpSharedSpaces /\ ~base_loaded
    THEN IF RecordDynamicDumpInfo
         THEN unrecoverable_loading_error(
                  [st EXCEPT !.cds_log = Append(@, "error: -XX:+RecordDynamicDumpInfo")])
         ELSE [st EXCEPT !.cds_log = Append(@, "warning: -XX:ArchiveClassesAtExit"),
                         !.DynamicDumpSharedSpaces = FALSE]
    ELSE st

\* ~ExceptionMark: an exception still pending ends the VM
ExceptionMarkEnd(st) ==
    IF st.pending_exception # "none" THEN [st EXCEPT !.vm_state = "aborted"] ELSE st

\* what a step that takes TRAPS may leave pending
Exceptions == {"java.lang.OutOfMemoryError", "java.lang.LinkageError"}
Throws == {"none"} \cup Exceptions

\* DynamicArchive::dump_at_exit(current, archive_name): link_throws and
\* init_throws are what link_shared_classes and init_dumptime_table leave
\* pending.  CHECK returns from dump_at_exit at once.
dump_at_exit(st, archive_name, link_throws, init_throws) ==
    IF ~st.DynamicDumpSharedSpaces \/ ~archive_name THEN ExceptionMarkEnd(st)
    ELSE IF link_throws = "none"
    THEN IF init_throws # "none"
         THEN ExceptionMarkEnd([st EXCEPT !.pending_exception = init_throws])
         ELSE ExceptionMarkEnd([st EXCEPT !.vm_ops = @ + 1])
    ELSE ExceptionMarkEnd(
             [st EXCEPT !.cds_log = @ \o <<"error: Dynamic dump has failed",
                                            "error: " \o link_throws>>,
                        !.pending_exception = "none",
                        !.DynamicDumpSharedSpaces = FALSE])

\* DynamicArchive::dump_for_jcmd(archive_name, TRAPS): each CHECK hands the
\* exception to the caller
dump_for_jcmd(st, link_throws, init_throws) ==
    IF link_throws # "none" THEN [st EXCEPT !.pending_exception = link_throws]
    ELSE IF init_throws # "none" THEN [st EXCEPT !.pending_exception = init_throws]
    ELSE [st EXCEPT !.vm_ops = @ + 1]

SetExitState(st) ==
    /\ DynamicDumpSharedSpaces' = st.DynamicDumpSharedSpaces
    /\ vm_state' = st.vm_state
    /\ pending_exception' = st.pending_exception
    /\ cds_log' = st.cds_log
    /\ vm_ops' = st.vm_ops

\* VM startup calls check_for_dynamic_dump
CheckForDynamicDump ==
    /\ vm_state = "starting"
    /\ SetExitState(check_for_dynamic_dump([ExitState EXCEPT !.vm_state = "running"]))
    /\ exit_calls' = Append(exit_calls, [NoExitCall EXCEPT !.op = "check"])
    /\ UNCHANGED <<RecordDynamicDumpInfo, ArchiveClassesAtExit, base_loaded, jcmd_calls>>
    /\ UNCHANGED NotExit

\* jcmd VM.cds dynamic_dump; the caller reports the exception and clears it
DumpForJcmd ==
    /\ vm_state = "running"
    /\ RecordDynamicDumpInfo /\ base_loaded /\ DynamicDumpSharedSpaces
    /\ jcmd_calls < MaxJcmd
    /\ jcmd_calls' = jcmd_calls + 1
    /\ \E link_throws, init_throws \in Throws :
           LET st == dump_for_jcmd(ExitState, link_throws, init_throws)
           IN  /\ SetExitState([st EXCEPT !.pending_exception = "none"])
               /\ exit_calls' = Append(exit_calls,
                                     [op |-> "jcmd", link |-> link_throws,
                                      init |-> IF link_throws = "none" THEN init_throws
                                               ELSE "none"])
    /\ UNCHANGED <<RecordDynamicDumpInfo, ArchiveClassesAtExit, base_loaded>>
    /\ UNCHANGED NotExit

\* before_exit calls dump_at_exit(thread, ArchiveClassesAtExit)
DumpAtExit ==
    /\ vm_state = "running"
    /\ \E link_throws, init_throws \in Throws :
           LET st == dump_at_exit(ExitState, ArchiveClassesAtExit, link_throws, init_throws)
               ran == DynamicDumpSharedSpaces /\ ArchiveClassesAtExit
           IN  /\ SetExitState([st EXCEPT !.vm_state = IF @ = "running" THEN "exiting" ELSE @])
               /\ exit_calls' = Append(exit_calls,
                                     [op |-> IF ran THEN "exit" ELSE "exit: no dump",
                                      link |-> IF ran THEN link_throws ELSE "none",
                                      init |-> IF ran /\ link_throws = "none"
                                               THEN init_throws ELSE "none"])
    /\ UNCHANGED <<RecordDynamicDumpInfo, ArchiveClassesAtExit, base_loaded, jcmd_calls>>
    /\ UNCHANGED NotExit

\* The VM with its options parsed: at most one of -XX:ArchiveClassesAtExit
\* and -XX:+RecordDynamicDumpInfo, either of which requests a dynamic dump
InitExit ==
    /\ InitIdle
    /\ InitValidateUnused
    /\ InitTrainingUnused
    /\ InitDoitUnused
    /\ InitRelocateUnused
    /\ InitCompareUnused
    /\ InitStoreUnused
    /\ InitConcurrentUnused
    /\ InitFieldInitUnused
    /\ InitOrderUnused
    /\ InitMakeUnused
    /\ InitLazyUnused
    /\ InitAlternateUnused
    /\ InitSetupUnused
    /\ RecordDynamicDumpInfo \in BOOLEAN
    /\ ArchiveClassesAtExit \in BOOLEAN
    /\ ~(RecordDynamicDumpInfo /\ ArchiveClassesAtExit)
    /\ DynamicDumpSharedSpaces = (RecordDynamicDumpInfo \/ ArchiveClassesAtExit)
    /\ base_loaded \in BOOLEAN
    /\ vm_state = "starting"
    /\ pending_exception = "none"
    /\ cds_log = <<>>
    /\ vm_ops = 0
    /\ jcmd_calls = 0
    /\ exit_calls = <<>>

NextExit ==
    \/ CheckForDynamicDump
    \/ DumpForJcmd
    \/ DumpAtExit

SpecExit == InitExit /\ [][NextExit]_vars

\* ------------------------------------------ dynamic_dump_method_comparator
NumSymbols == 3
Symbols == 1..NumSymbols

\* Where a name Symbol ends up: in the mapped static archive, or copied into
\* the buffer, each at a slot of its own
SymbolLocations == [region : {"static", "buffer"}, slot : 1..NumSymbols]

\* ArchiveBuilder::any_to_offset_u4: the distance of the Symbol, or of its
\* buffered copy at its requested address, from the bottom of the static
\* archive; the dynamic archive lies above the static one
any_to_offset_u4(name) ==
    IF sym_loc[name].region = "static" THEN sym_loc[name].slot
    ELSE NumSymbols + sym_loc[name].slot

\* variant: the names are compared by their addresses in the dumping process
compare_by_live_address(a_name, b_name) ==
    IF a_name = b_name THEN [ret |-> 0, failed |-> FALSE]
    ELSE IF sym_live_addr[a_name] < sym_live_addr[b_name]
    THEN [ret |-> -1, failed |-> FALSE]
    ELSE [ret |-> 1, failed |-> ~(sym_live_addr[a_name] > sym_live_addr[b_name])]

\* dynamic_dump_method_comparator(Method* a, Method* b) on a->name() and
\* b->name(): the result, and whether assert(a_offset > b_offset) failed
dynamic_dump_method_comparator(a_name, b_name) ==
    IF a_name = b_name THEN [ret |-> 0, failed |-> FALSE]
    ELSE LET a_offset == any_to_offset_u4(a_name)
             b_offset == any_to_offset_u4(b_name)
         IN  IF a_offset < b_offset
             THEN [ret |-> -1, failed |-> FALSE]
             ELSE [ret |-> 1, failed |-> ~(a_offset > b_offset)]

\* Method::sort_methods compares two methods of a class; one comparison is
\* followed, the comparator keeps no state
CompareMethods ==
    /\ sym_loc # <<>>
    /\ cmp_last = NoCompare
    /\ \E a_name, b_name \in Symbols :
           cmp_last' = [op |-> "compare", a |-> a_name, b |-> b_name,
                        result |-> dynamic_dump_method_comparator(a_name, b_name)]
    /\ UNCHANGED <<sym_live_addr, sym_loc>>
    /\ UNCHANGED NotCompare

\* The name Symbols of a dump: interned, so one Symbol per name; each at an
\* address of its own in the dumping process (the Symbols are numbered in the
\* order of these addresses) and at a place of its own in the archives
InitCompare ==
    /\ InitIdle
    /\ InitValidateUnused
    /\ InitTrainingUnused
    /\ InitDoitUnused
    /\ InitRelocateUnused
    /\ InitExitUnused
    /\ InitStoreUnused
    /\ InitConcurrentUnused
    /\ InitFieldInitUnused
    /\ InitOrderUnused
    /\ InitMakeUnused
    /\ InitLazyUnused
    /\ InitAlternateUnused
    /\ InitSetupUnused
    /\ sym_live_addr = [x \in Symbols |-> x]
    /\ sym_loc \in { f \in [Symbols -> SymbolLocations] :
                       \A x, y \in Symbols : x # y => f[x] # f[y] }
    /\ cmp_last = NoCompare

NextCompare == CompareMethods

SpecCompare == InitCompare /\ [][NextCompare]_vars

\* ------------------------------------------- TrainingData::store_results
NumRecords == 3
TdRecords == 1..NumRecords

RECURSIVE prepare_all(_, _, _)
\* for (i = 0; i < len; i++) tda.at(i)->prepare_to_dump(tdd): st = [table,
\* prepared]; preparing a record may install the record it depends on
prepare_all(st, list, i) ==
    IF i > Len(list) THEN st
    ELSE LET r == list[i]
             new == IF td_materializes[r] = NoKlass THEN {} ELSE {td_materializes[r]}
         IN  prepare_all([table |-> st.table \cup new,
                          prepared |-> st.prepared \cup {r}], list, i + 1)

\* One pass of `while (prev_len != len)`: the assert, the two assignments,
\* prepare_to_dump on the first len elements, tda.clear() and the
\* enumeration of the table under the lock, in any order
StoreLoopPass ==
    /\ store_pc = "loop"
    /\ prev_len # len
    /\ LET new_len == Len(tda)
           st == prepare_all([table |-> td_table, prepared |-> td_prepared],
                             SubSeq(tda, 1, new_len), 1)
       IN  /\ prev_len' = len
           /\ len' = new_len
           /\ td_table' = st.table
           /\ td_prepared' = st.prepared
           /\ tda' \in Orders(st.table)
    /\ UNCHANGED <<td_materializes, store_pc>>
    /\ UNCHANGED NotStore

\* the loop ends; tda.sort(qsort_compare_tdata)
StoreLoopExit ==
    /\ store_pc = "loop"
    /\ prev_len = len
    /\ store_pc' = "collected"
    /\ UNCHANGED <<td_table, td_materializes, tda, prev_len, len, td_prepared>>
    /\ UNCHANGED NotStore

\* store_results is called with some records in the table
InitStore ==
    /\ InitIdle
    /\ InitValidateUnused
    /\ InitTrainingUnused
    /\ InitDoitUnused
    /\ InitRelocateUnused
    /\ InitExitUnused
    /\ InitCompareUnused
    /\ InitConcurrentUnused
    /\ InitFieldInitUnused
    /\ InitOrderUnused
    /\ InitMakeUnused
    /\ InitLazyUnused
    /\ InitAlternateUnused
    /\ InitSetupUnused
    /\ td_table \in SUBSET TdRecords
    /\ td_materializes \in [TdRecords -> TdRecords \cup {NoKlass}]
    /\ tda = <<>>
    /\ prev_len = -1
    /\ len = 0
    /\ td_prepared = {}
    /\ store_pc = "loop"

NextStore ==
    \/ StoreLoopPass
    \/ StoreLoopExit

SpecStore == InitStore /\ [][NextStore]_vars

\* ------------------- MethodTrainingData::notice_compilation, concurrently
NumThreads == 2
\* the calls one compiler thread makes
MaxCalls == 2
Threads == 1..NumThreads

IdleThread == [pc |-> "idle", level |-> 0, inlined |-> FALSE, seen |-> 0, calls |-> 0]

\* notice_compilation(method, level, inlined) is entered with need_data():
\* the read of method_counters()->method_training_data()
NoticeEnter(t) ==
    /\ thr[t].pc = "idle"
    /\ thr[t].calls < MaxCalls
    /\ \E level \in Levels : \E inlined \in BOOLEAN :
        /\ thr' = [thr EXCEPT ![t] = [@ EXCEPT !.pc = IF mcs_cached THEN "flag" ELSE "lock",
                                               !.level = level,
                                               !.inlined = inlined,
                                               !.calls = @ + 1]]
        /\ noticed_so_far' =
               [max_level |-> IF level > noticed_so_far.max_level THEN level
                              ELSE noticed_so_far.max_level,
                simple |-> noticed_so_far.simple \/ level = CompLevel_simple,
                not_inlined |-> noticed_so_far.not_inlined \/ ~inlined]
    /\ UNCHANGED <<mtd_record, mcs_cached, lock_holder>>
    /\ UNCHANGED NotConcurrent

\* MethodTrainingDataSetLocker l
NoticeLock(t) ==
    /\ thr[t].pc = "lock"
    /\ lock_holder = 0
    /\ lock_holder' = t
    /\ thr' = [thr EXCEPT ![t].pc = "slow"]
    /\ UNCHANGED <<mtd_record, mcs_cached, noticed_so_far>>
    /\ UNCHANGED NotConcurrent

\* the slow path under the lock: get or new + put, the cache, and the end of
\* the block, which releases the lock
NoticeSlowPath(t) ==
    /\ thr[t].pc = "slow"
    /\ lock_holder = t
    /\ mtd_record' = IF mtd_record.present THEN mtd_record
                     ELSE NewMethodTrainingData(thr[t].level, thr[t].inlined)
    /\ \E built \in (IF mcs_cached THEN {TRUE} ELSE BOOLEAN) : mcs_cached' = built
    /\ lock_holder' = 0
    /\ thr' = [thr EXCEPT ![t].pc = "flag"]
    /\ UNCHANGED noticed_so_far
    /\ UNCHANGED NotConcurrent

\* if (mtd->only_inlined() && !inlined) mtd->set_only_inlined(false), and the
\* read of mtd->level() in the test of the level
NoticeFlagAndReadLevel(t) ==
    /\ thr[t].pc = "flag"
    /\ mtd_record' = [mtd_record EXCEPT
                         !.only_inlined = update_only_inlined(@, thr[t].inlined)]
    /\ thr' = [thr EXCEPT ![t] = [@ EXCEPT !.pc = "level", !.seen = mtd_record.level]]
    /\ UNCHANGED <<mcs_cached, lock_holder, noticed_so_far>>
    /\ UNCHANGED NotConcurrent

\* mtd->set_level(...) if the test on the level the thread has read asks for
\* it, and the return
NoticeWriteLevel(t) ==
    /\ thr[t].pc = "level"
    /\ mtd_record' = IF thr[t].level = CompLevel_simple \/ thr[t].level > thr[t].seen
                     THEN [mtd_record EXCEPT !.level = update_level(thr[t].seen, thr[t].level)]
                     ELSE mtd_record
    /\ thr' = [thr EXCEPT ![t].pc = "idle"]
    /\ UNCHANGED <<mcs_cached, lock_holder, noticed_so_far>>
    /\ UNCHANGED NotConcurrent

\* the compiler threads start with StoreProfiles set and no record
InitConcurrent ==
    /\ InitIdle
    /\ InitValidateUnused
    /\ InitTrainingUnused
    /\ InitDoitUnused
    /\ InitRelocateUnused
    /\ InitExitUnused
    /\ InitCompareUnused
    /\ InitStoreUnused
    /\ InitFieldInitUnused
    /\ InitOrderUnused
    /\ InitMakeUnused
    /\ InitLazyUnused
    /\ InitAlternateUnused
    /\ InitSetupUnused
    /\ mtd_record = NoRecord
    /\ mcs_cached = FALSE
    /\ lock_holder = 0
    /\ thr = [t \in Threads |-> IdleThread]
    /\ noticed_so_far = [max_level |-> 0, simple |-> FALSE, not_inlined |-> FALSE]

NextConcurrent ==
    \E t \in Threads :
        \/ NoticeEnter(t)
        \/ NoticeLock(t)
        \/ NoticeSlowPath(t)
        \/ NoticeFlagAndReadLevel(t)
        \/ NoticeWriteLevel(t)

SpecConcurrent == InitConcurrent /\ [][NextConcurrent]_vars

\* --------------------------- KlassTrainingData::record_static_field_init
NumFields == 2
StaticFields == 1..NumFields
PENDING == -1

\* variant: the exchange is made whatever the old value is
cmpxchg_unconditional(dest, compare_value, exchange_value) ==
    [stored |-> exchange_value, found |-> dest]

\* Atomic::cmpxchg(&dest, compare_value, exchange_value): the value stored
\* afterwards and the value found
cmpxchg(dest, compare_value, exchange_value) ==
    [stored |-> IF dest = compare_value THEN exchange_value ELSE dest, found |-> dest]

\* next_fieldinit_count(): the counter is advanced and its new value returned
next_fieldinit_count(count) == count + 1

\* record_static_field_init(fdata, reason) up to 'if (found != 0) return
\* false', called for a put to the field or by
\* check_field_states_and_find_field
RecordFieldEnter(t) ==
    /\ fi_thr[t].pc = "idle"
    /\ fi_thr[t].calls < MaxCalls
    /\ \E f \in StaticFields :
        LET c == cmpxchg(fieldinit_sequence_index[f], 0, PENDING) IN
        /\ fieldinit_sequence_index' = [fieldinit_sequence_index EXCEPT ![f] = c.stored]
        /\ fi_calls' = [fi_calls EXCEPT ![f] = @ + 1]
        /\ fi_thr' = [fi_thr EXCEPT ![t] = [pc |-> IF c.found # 0 THEN "idle" ELSE "store",
                                            field |-> f, calls |-> @.calls + 1]]
    /\ UNCHANGED <<fieldinit_count, numbered_by_setup, fi_true>>
    /\ UNCHANGED NotFieldInit

\* Atomic::store(&seq, next_fieldinit_count()), the log element, return true
RecordFieldStore(t) ==
    /\ fi_thr[t].pc = "store"
    /\ LET f == fi_thr[t].field
           n == next_fieldinit_count(fieldinit_count)
       IN  /\ fieldinit_count' = n
           /\ fieldinit_sequence_index' = [fieldinit_sequence_index EXCEPT ![f] = n]
           /\ fi_true' = [fi_true EXCEPT ![f] = @ + 1]
    /\ fi_thr' = [fi_thr EXCEPT ![t].pc = "idle"]
    /\ UNCHANGED <<numbered_by_setup, fi_calls>>
    /\ UNCHANGED NotFieldInit

\* the index of field f when setup_static_fields has numbered the fields of
\* set s in the order of the array
SetupIndex(s, f) == IF f \in s THEN Cardinality({g \in s : g <= f}) ELSE 0

\* the array is installed; setup_static_fields has numbered the fields that
\* were not clean
InitFieldInit ==
    /\ InitIdle
    /\ InitValidateUnused
    /\ InitTrainingUnused
    /\ InitDoitUnused
    /\ InitRelocateUnused
    /\ InitExitUnused
    /\ InitCompareUnused
    /\ InitStoreUnused
    /\ InitConcurrentUnused
    /\ InitOrderUnused
    /\ InitMakeUnused
    /\ InitLazyUnused
    /\ InitAlternateUnused
    /\ InitSetupUnused
    /\ numbered_by_setup \in SUBSET StaticFields
    /\ fieldinit_sequence_index = [f \in StaticFields |-> SetupIndex(numbered_by_setup, f)]
    /\ fieldinit_count = Cardinality(numbered_by_setup)
    /\ fi_thr = [t \in Threads |-> [pc |-> "idle", field |-> 1, calls |-> 0]]
    /\ fi_calls = [f \in StaticFields |-> 0]
    /\ fi_true = [f \in StaticFields |-> 0]

NextFieldInit ==
    \E t \in Threads :
        \/ RecordFieldEnter(t)
        \/ RecordFieldStore(t)

SpecFieldInit == InitFieldInit /\ [][NextFieldInit]_vars

\* ------------------------------ the order of the training records in a dump
NumTdKlasses == 2
\* the highest sequence number and compile id
MaxSeq == 2

KlassRecords == { [kind |-> "klass", id |-> c] : c \in 1..NumTdKlasses }
MethodRecords == { [kind |-> "method", id |-> m] : m \in Methods }
TdAll == KlassRecords \cup MethodRecords

\* the KlassTrainingData a MethodTrainingData belongs to
KlassOf(m) == [kind |-> "klass", id |-> mtd_klass[m.id]]

\* Key::cmp: the keys are in a total order, the class keys first
key_cmp(a, b) ==
    LET n(r) == IF r.kind = "klass" THEN r.id ELSE NumTdKlasses + r.id
    IN  n(a) - n(b)

\* static int cmp_zeroes_to_end(int id1, int id2)
cmp_zeroes_to_end(id1, id2) ==
    LET cmp == id1 - id2
    IN  IF id1 = 0 \/ id2 = 0 THEN 0 - cmp ELSE cmp

RECURSIVE MethodTrainingData_cmp(_, _)
RECURSIVE KlassTrainingData_cmp(_, _)
\* int MethodTrainingData::cmp(const TrainingData* tdata) const
MethodTrainingData_cmp(this, tdata) ==
    IF this = tdata THEN 0
    ELSE IF tdata.kind = "method" /\ KlassOf(this) = KlassOf(tdata)
    THEN LET cmp == cmp_zeroes_to_end(last_compile_id[this.id], last_compile_id[tdata.id])
         IN  IF cmp # 0 THEN cmp ELSE key_cmp(this, tdata)
    ELSE KlassTrainingData_cmp(KlassOf(this),
                               IF tdata.kind = "method" THEN KlassOf(tdata) ELSE tdata)

\* int KlassTrainingData::cmp(const TrainingData* tdata) const
KlassTrainingData_cmp(this, tdata) ==
    IF this = tdata THEN 0
    ELSE IF tdata.kind = "klass"
    THEN LET cmp == cmp_zeroes_to_end(clinit_sequence_index[this.id],
                                      clinit_sequence_index[tdata.id])
         IN  IF cmp # 0 THEN cmp ELSE key_cmp(this, tdata)
    ELSE 0 - MethodTrainingData_cmp(tdata, this)

\* qsort_compare_tdata(p1, p2): (*p1)->cmp(*p2)
qsort_compare_tdata(p1, p2) ==
    IF p1.kind = "method" THEN MethodTrainingData_cmp(p1, p2)
    ELSE KlassTrainingData_cmp(p1, p2)

\* tda.sort(qsort_compare_tdata) compares two records
CompareTdata ==
    /\ tdata_cmp_last.op = "none"
    /\ \E a \in TdAll : \E b \in TdAll :
        tdata_cmp_last' = [op |-> "cmp", a |-> a, b |-> b,
                           result |-> qsort_compare_tdata(a, b)]
    /\ UNCHANGED <<clinit_sequence_index, mtd_klass, last_compile_id>>
    /\ UNCHANGED NotOrder

\* the records of the table when store_results sorts them
InitOrder ==
    /\ InitIdle
    /\ InitValidateUnused
    /\ InitTrainingUnused
    /\ InitDoitUnused
    /\ InitRelocateUnused
    /\ InitExitUnused
    /\ InitCompareUnused
    /\ InitStoreUnused
    /\ InitConcurrentUnused
    /\ InitFieldInitUnused
    /\ InitMakeUnused
    /\ InitLazyUnused
    /\ InitAlternateUnused
    /\ InitSetupUnused
    /\ clinit_sequence_index \in [1..NumTdKlasses -> 0..MaxSeq]
    /\ mtd_klass \in [Methods -> 1..NumTdKlasses]
    /\ last_compile_id \in [Methods -> 0..MaxSeq]
    /\ tdata_cmp_last = [op |-> "none"]

NextOrder == CompareTdata

SpecOrder == InitOrder /\ [][NextOrder]_vars

\* ------------------------------------------- CompileTrainingData::make
\* the highest compile id of a task
MaxCid == 2
\* the top methods that inline the method
NumTops == 2
TopMethods == 1..NumTops

\* the link *insp points at: the head (0) or the _next of a record
HeadLink == 0

\* the position in compile_list of the record a link points to; past the end
\* when the link holds nullptr
Target(insp) ==
    IF insp = HeadLink THEN 1
    ELSE (CHOOSE i \in 1..Len(compile_list) : compile_list[i].id = insp) + 1

IsNull(insp) == Target(insp) > Len(compile_list)

RECURSIVE find_insertion_point(_, _)
\* while ((*insp) != nullptr && (*insp)->compile_id() > cid) insp = &(*insp)->_next
find_insertion_point(insp, cid) ==
    IF ~IsNull(insp) /\ compile_list[Target(insp)].cid > cid
    THEN find_insertion_point(compile_list[Target(insp)].id, cid)
    ELSE insp

\* the condition of the two loops that look for a duplicate
same_compile_id(insp, cid) ==
    ~IsNull(insp) /\ compile_list[Target(insp)].cid = cid

\* (*insp)->method() == thism && (*insp)->top_method() == topm
is_duplicate(insp, top) == compile_list[Target(insp)].top = top

\* make(task, inlined_method) up to the end of the first loop
MakeEnter(t) ==
    /\ make_thr[t].pc = "idle"
    /\ make_thr[t].calls < MaxCalls
    /\ \E cid \in 1..MaxCid : \E top \in TopMethods :
        make_thr' = [make_thr EXCEPT ![t] =
                        [pc |-> "dup", cid |-> cid, top |-> top,
                         insp |-> find_insertion_point(HeadLink, cid),
                         spin |-> FALSE, calls |-> @.calls + 1]]
    /\ UNCHANGED <<compile_list, make_lock, make_returned>>
    /\ UNCHANGED NotMake

\* one test of the loop that checks for duplicate records without the lock
MakeCheckDuplicate(t) ==
    /\ make_thr[t].pc = "dup"
    /\ LET me == make_thr[t] IN
       IF same_compile_id(me.insp, me.cid) /\ ~is_duplicate(me.insp, me.top)
       THEN make_thr' = [make_thr EXCEPT ![t].spin = ~@]
       ELSE make_thr' = [make_thr EXCEPT ![t].pc = "lock"]
    /\ UNCHANGED <<compile_list, make_lock, make_returned>>
    /\ UNCHANGED NotMake

\* new CompileTrainingData(...) and TrainingDataSetLocker l
MakeLock(t) ==
    /\ make_thr[t].pc = "lock"
    /\ make_lock = 0
    /\ make_lock' = t
    /\ make_thr' = [make_thr EXCEPT ![t].pc = "locked"]
    /\ UNCHANGED <<compile_list, make_returned>>
    /\ UNCHANGED NotMake

\* one test of the loop under the lock, and after it the linking of the record
\* at *insp, the insertion point found before the lock was taken; a return
\* releases the lock
MakeLink(t) ==
    /\ make_thr[t].pc = "locked"
    /\ make_lock = t
    /\ LET me == make_thr[t]
           insp == me.insp
           at == Target(insp)
           ctd == [id |-> Len(compile_list) + 1, cid |-> me.cid, top |-> me.top]
       IN  IF same_compile_id(insp, me.cid)
           THEN IF is_duplicate(insp, me.top)
                THEN /\ make_returned' = make_returned \cup {compile_list[at].id}
                     /\ make_lock' = 0
                     /\ make_thr' = [make_thr EXCEPT ![t].pc = "idle"]
                     /\ UNCHANGED compile_list
                ELSE /\ make_thr' = [make_thr EXCEPT ![t].spin = ~@]
                     /\ UNCHANGED <<compile_list, make_lock, make_returned>>
           ELSE /\ compile_list' = SubSeq(compile_list, 1, at - 1) \o <<ctd>>
                                       \o SubSeq(compile_list, at, Len(compile_list))
                /\ make_returned' = make_returned \cup {ctd.id}
                /\ make_lock' = 0
                /\ make_thr' = [make_thr EXCEPT ![t].pc = "idle"]
    /\ UNCHANGED NotMake

MakeStep(t) ==
    \/ MakeEnter(t)
    \/ MakeCheckDuplicate(t)
    \/ MakeLock(t)
    \/ MakeLink(t)

\* the method's record has no compilation yet
InitMake ==
    /\ InitIdle
    /\ InitValidateUnused
    /\ InitTrainingUnused
    /\ InitDoitUnused
    /\ InitRelocateUnused
    /\ InitExitUnused
    /\ InitCompareUnused
    /\ InitStoreUnused
    /\ InitConcurrentUnused
    /\ InitFieldInitUnused
    /\ InitOrderUnused
    /\ InitLazyUnused
    /\ InitAlternateUnused
    /\ InitSetupUnused
    /\ compile_list = <<>>
    /\ make_lock = 0
    /\ make_thr = [t \in Threads |-> [pc |-> "idle", cid |-> 1, top |-> 1,
                                      insp |-> HeadLink, spin |-> FALSE, calls |-> 0]]
    /\ make_returned = {}

NextMake == \E t \in Threads : MakeStep(t)

SpecMake == InitMake /\ [][NextMake]_vars

\* every compiler thread that can take a step takes one
SpecMakeFair == SpecMake /\ \A t \in Threads : WF_vars(MakeStep(t))

\* ------------------------------------ the lazy creation of training records
\* the keys: the method by name in the table of notice_compilation, the
\* method and its holder in the table of TrainingData
TdKeys == {"name", "method", "klass"}
LazyOps == {"notice_compilation", "MethodTrainingData::make", "null_if_not_found",
            "KlassTrainingData::make"}

\* the test at the head of each function: if (!need_data()) return, and
\* if (!have_data() && !need_data()) return mtd; KlassTrainingData::make has none
returns_at_once(op) ==
    CASE op = "notice_compilation" -> ~collect_data
      [] op \in {"MethodTrainingData::make", "null_if_not_found"} ->
             ~have_data /\ ~collect_data
      [] OTHER -> FALSE

\* the pointer each function tries first
CacheOf(op) ==
    CASE op = "notice_compilation" -> "name"
      [] op \in {"MethodTrainingData::make", "null_if_not_found"} -> "method"
      [] OTHER -> "none"

\* the keys each function looks up or installs under the lock, in order
KeysOf(op) ==
    CASE op = "notice_compilation" -> <<"name">>
      [] op = "MethodTrainingData::make" -> <<"klass", "method">>
      [] op = "null_if_not_found" -> <<"method">>
      [] OTHER -> <<"klass">>

\* training_data_set()->install(tdata), and get + put of notice_compilation:
\* the table afterwards and the record the caller goes on with
install(table, key, tdata) ==
    IF table[key] # 0 THEN [table |-> table, got |-> table[key]]
    ELSE [table |-> [table EXCEPT ![key] = tdata], got |-> tdata]

\* training_data_set()->find(&mkey)
find(table, key) == [table |-> table, got |-> table[key]]

\* a call up to its first lock: the test of the mode and the cached pointer
LazyEnter(t) ==
    /\ lazy_thr[t].pc = "idle"
    /\ lazy_thr[t].calls < MaxCalls
    /\ \E op \in LazyOps :
        LET cached == IF CacheOf(op) = "none" THEN 0 ELSE td_cached[CacheOf(op)]
            me == [lazy_thr[t] EXCEPT !.op = op, !.calls = @ + 1]
        IN  IF returns_at_once(op)
            THEN /\ lazy_thr' = [lazy_thr EXCEPT ![t] = me]
                 /\ td_returned' = td_returned \cup {[op |-> op, key |-> "none", got |-> 0]}
            ELSE IF cached # 0
            THEN /\ lazy_thr' = [lazy_thr EXCEPT ![t] = me]
                 /\ td_returned' = td_returned \cup
                        {[op |-> op, key |-> CacheOf(op), got |-> cached]}
            ELSE /\ lazy_thr' = [lazy_thr EXCEPT ![t] = [me EXCEPT !.pc = "lock",
                                                                  !.keys = KeysOf(op)]]
                 /\ UNCHANGED td_returned
    /\ UNCHANGED <<have_data, collect_data, td_set, td_cached, td_lock, td_allocated,
                   td_added>>
    /\ UNCHANGED NotLazy

\* TrainingDataSetLocker l: the lock is a no-op unless need_data()
LazyLock(t) ==
    /\ lazy_thr[t].pc = "lock"
    /\ collect_data => td_lock = 0
    /\ td_lock' = IF collect_data THEN t ELSE td_lock
    /\ lazy_thr' = [lazy_thr EXCEPT ![t].pc = "locked"]
    /\ UNCHANGED <<have_data, collect_data, td_set, td_cached, td_allocated,
                   td_returned, td_added>>
    /\ UNCHANGED NotLazy

\* the block under the lock: find, or install of a new record, the caching
\* of the pointer, and the end of the block
LazyInstall(t) ==
    /\ lazy_thr[t].pc = "locked"
    /\ LET me == lazy_thr[t]
           key == Head(me.keys)
           tdata == td_allocated + 1
           r == IF me.op = "null_if_not_found" THEN find(td_set, key)
                ELSE install(td_set, key, tdata)
           last_key == Len(me.keys) = 1
       IN  /\ td_set' = r.table
           /\ td_allocated' = IF me.op = "null_if_not_found" THEN td_allocated ELSE tdata
           /\ td_added' = IF r.table # td_set
                          THEN td_added \cup {[op |-> me.op, key |-> key]}
                          ELSE td_added
           /\ IF key = CacheOf(me.op) /\ r.got # 0
              THEN \E cached \in (IF me.op = "notice_compilation" THEN BOOLEAN ELSE {TRUE}) :
                       td_cached' = IF cached THEN [td_cached EXCEPT ![key] = r.got]
                                    ELSE td_cached
              ELSE UNCHANGED td_cached
           /\ td_lock' = IF td_lock = t THEN 0 ELSE td_lock
           /\ td_returned' = IF last_key \/ me.op = "KlassTrainingData::make"
                             THEN td_returned \cup {[op |-> me.op, key |-> key, got |-> r.got]}
                             ELSE td_returned \cup {[op |-> "KlassTrainingData::make",
                                                     key |-> key, got |-> r.got]}
           /\ lazy_thr' = [lazy_thr EXCEPT ![t] =
                              IF last_key THEN [me EXCEPT !.pc = "idle", !.keys = <<>>]
                              ELSE [me EXCEPT !.pc = "lock", !.keys = Tail(me.keys)]]
    /\ UNCHANGED <<have_data, collect_data>>
    /\ UNCHANGED NotLazy

\* the tables are empty; the mode is any of the four
InitLazy ==
    /\ InitIdle
    /\ InitValidateUnused
    /\ InitTrainingUnused
    /\ InitDoitUnused
    /\ InitRelocateUnused
    /\ InitExitUnused
    /\ InitCompareUnused
    /\ InitStoreUnused
    /\ InitConcurrentUnused
    /\ InitFieldInitUnused
    /\ InitOrderUnused
    /\ InitMakeUnused
    /\ InitAlternateUnused
    /\ InitSetupUnused
    /\ have_data \in BOOLEAN
    /\ collect_data \in BOOLEAN
    /\ td_set = [k \in TdKeys |-> 0]
    /\ td_cached = [k \in TdKeys |-> 0]
    /\ td_lock = 0
    /\ lazy_thr = [t \in Threads |-> [pc |-> "idle", op |-> "notice_compilation",
                                      keys |-> <<>>, calls |-> 0]]
    /\ td_allocated = 0
    /\ td_returned = {}
    /\ td_added = {}

NextLazy ==
    \E t \in Threads :
        \/ LazyEnter(t)
        \/ LazyLock(t)
        \/ LazyInstall(t)

SpecLazy == InitLazy /\ [][NextLazy]_vars

\* ------------------------------------------------------------------
\* A sequence of dump attempts in one process (jcmd VM.cds dynamic_dump may
\* be repeated): each attempt links the classes, which allocates the
\* ClassPrelinker tables, and then runs DynamicArchiveBuilder::doit in the
\* VM thread.  A failed assert is recorded and the attempt goes on, as in a
\* product build; a debug build stops at the first one.
MaxAttempts == 5

\* ClassPrelinker::initialize (classPrelinker.cpp:77-95): the assert and the
\* allocation of the tables
initialize_asserts(allocated) ==
    IF allocated THEN {"initialize: must be"} ELSE {}

\* ClassPrelinker::dispose (classPrelinker.cpp:104-114)
dispose_asserts(allocated) ==
    IF allocated THEN {} ELSE {"dispose: must be"}

\* MetaspaceShared::link_shared_classes, called at dynamicArchive.cpp:561 and
\* 587 before every dump: it calls ClassPrelinker::initialize
link_shared_classes(allocated) == initialize_asserts(allocated)

\* DynamicArchive::dump_for_jcmd up to the VM operation
\* (dynamicArchive.cpp:581-592): MetaspaceShared::link_shared_classes calls
\* ClassPrelinker::initialize; the dump-time table is empty or not
DumpPrepare ==
    /\ attempt_pc = "idle"
    /\ Len(attempt_log) < MaxAttempts
    /\ attempt_asserts' = attempt_asserts \cup link_shared_classes(tables_allocated)
    /\ tables_allocated' = TRUE
    /\ attempt_empty' \in BOOLEAN
    /\ attempt_pc' = "linked"
    /\ post_dumps' = 0
    /\ UNCHANGED attempt_log
    /\ UNCHANGED NotAlternate

\* DynamicArchiveBuilder::doit (dynamicArchive.cpp:261-342): the early return
\* at 269-272 leaves without post_dump; the full path marks pointers and
\* ends in post_dump (378-381), which resets the pointer map and disposes
\* of the tables
DoitRun ==
    /\ attempt_pc = "linked"
    /\ attempt_pc' = "idle"
    /\ IF attempt_empty
         THEN /\ attempt_log' = Append(attempt_log, "no class")
              /\ UNCHANGED <<tables_allocated, post_dumps, attempt_asserts>>
         ELSE /\ attempt_log' = Append(attempt_log, "dumped")
              /\ post_dumps' = post_dumps + 1
              /\ attempt_asserts' = attempt_asserts \cup dispose_asserts(tables_allocated)
              /\ tables_allocated' = FALSE
    /\ UNCHANGED attempt_empty
    /\ UNCHANGED NotAlternate

InitAlternate ==
    /\ InitIdle
    /\ InitValidateUnused
    /\ InitTrainingUnused
    /\ InitDoitUnused
    /\ InitRelocateUnused
    /\ InitExitUnused
    /\ InitCompareUnused
    /\ InitStoreUnused
    /\ InitConcurrentUnused
    /\ InitFieldInitUnused
    /\ InitOrderUnused
    /\ InitMakeUnused
    /\ InitLazyUnused
    /\ InitSetupUnused
    /\ tables_allocated = FALSE
    /\ attempt_pc = "idle"
    /\ attempt_empty = FALSE
    /\ attempt_log = <<>>
    /\ post_dumps = 0
    /\ attempt_asserts = {}

NextAlternate ==
    \/ DumpPrepare
    \/ DoitRun

SpecAlternate == InitAlternate /\ [][NextAlternate]_vars

\* ------------------------------------------------------------------
\* KlassTrainingData::setup_static_fields run by racing threads for one
\* class.  The array a thread allocates is named by the thread, the shared
\* empty array by SharedEmpty; _static_fields and _no_static_fields hold
\* such a name or 0 for nullptr.
NumStatics == 2

SharedEmpty == NumThreads + 1

\* A field of the holder as the loop at 631-645 sees it: not static, a
\* static final with an initial value, a static whose value is still the
\* default (field_state_is_clean, 773-801), or a static that was written
FieldKinds == {"instance", "constant", "clean", "dirty"}

\* Atomic::replace_if_null(dest, value): the value now in dest
replace_if_null(dest, value) == IF dest = 0 THEN value ELSE dest

\* the array a name stands for
FieldArrayOf(name) == IF name \in Threads THEN setup_arrays[name] ELSE <<>>

\* the position after field i of the loop: the next field or the end
AfterField(i) == IF i < NumStatics THEN [pc |-> "scan", i |-> i + 1]
                                   ELSE [pc |-> "counted", i |-> i]

\* 625-627: load_acquire of _static_fields; return if it is set, else a
\* new array
SetupLoad(t) ==
    /\ setup_thr[t].pc = "start"
    /\ IF static_fields # 0
         THEN /\ setup_thr' = [setup_thr EXCEPT ![t].pc = "done"]
              /\ UNCHANGED setup_arrays
         ELSE /\ setup_thr' = [setup_thr EXCEPT ![t].pc = "scan", ![t].i = 1]
              /\ setup_arrays' = [setup_arrays EXCEPT ![t] = <<>>]
    /\ UNCHANGED <<holder_fields, static_fields, no_static_fields, setup_fieldinit_count,
                   setup_deleted, setup_installs>>
    /\ UNCHANGED NotSetup

\* 631-645, one field of the loop: skipped, appended with index 0, or (641)
\* the read of _fieldinit_count that begins '++_fieldinit_count'
SetupScan(t) ==
    /\ setup_thr[t].pc = "scan"
    /\ LET i == setup_thr[t].i
           kind == holder_fields[i]
           nxt == AfterField(i) IN
       CASE kind \in {"instance", "constant"} ->
              /\ setup_thr' = [setup_thr EXCEPT ![t].pc = nxt.pc, ![t].i = nxt.i]
              /\ UNCHANGED setup_arrays
         [] kind = "clean" ->
              /\ setup_thr' = [setup_thr EXCEPT ![t].pc = nxt.pc, ![t].i = nxt.i]
              /\ setup_arrays' = [setup_arrays EXCEPT ![t] = Append(@, 0)]
         [] kind = "dirty" ->
              /\ setup_thr' = [setup_thr EXCEPT ![t].pc = "incr",
                                                ![t].tmp = setup_fieldinit_count]
              /\ UNCHANGED setup_arrays
    /\ UNCHANGED <<holder_fields, static_fields, no_static_fields, setup_fieldinit_count,
                   setup_deleted, setup_installs>>
    /\ UNCHANGED NotSetup

\* 641: the write of '++_fieldinit_count' (a plain int, not atomic) and the
\* store of the new value as the field's sequence index
SetupIncrement(t) ==
    /\ setup_thr[t].pc = "incr"
    /\ LET nxt == AfterField(setup_thr[t].i)
           v == setup_thr[t].tmp + 1 IN
       /\ setup_fieldinit_count' = v
       /\ setup_arrays' = [setup_arrays EXCEPT ![t] = Append(@, v)]
       /\ setup_thr' = [setup_thr EXCEPT ![t].pc = nxt.pc, ![t].i = nxt.i]
    /\ UNCHANGED <<holder_fields, static_fields, no_static_fields, setup_deleted,
                   setup_installs>>
    /\ UNCHANGED NotSetup

\* 647-650 with no_static_fields() (610-622): without statics the new array
\* is deleted and the shared empty array taken, allocated by the first
\* caller
SetupEmpty(t) ==
    /\ setup_thr[t].pc = "counted"
    /\ IF Len(setup_arrays[t]) = 0
         THEN /\ setup_deleted' = setup_deleted \cup {t}
              /\ no_static_fields' = replace_if_null(no_static_fields, SharedEmpty)
              /\ setup_thr' = [setup_thr EXCEPT ![t].pc = "install", ![t].fda = SharedEmpty]
         ELSE /\ setup_thr' = [setup_thr EXCEPT ![t].pc = "install", ![t].fda = t]
              /\ UNCHANGED <<setup_deleted, no_static_fields>>
    /\ UNCHANGED <<holder_fields, static_fields, setup_fieldinit_count, setup_arrays,
                   setup_installs>>
    /\ UNCHANGED NotSetup

\* 651-655: replace_if_null(&_static_fields, fda); the loser deletes its
\* array unless it is the shared empty one
SetupInstall(t) ==
    /\ setup_thr[t].pc = "install"
    /\ LET fda == setup_thr[t].fda
           won == static_fields = 0 IN
       /\ static_fields' = replace_if_null(static_fields, fda)
       /\ setup_installs' = IF won THEN setup_installs + 1 ELSE setup_installs
       /\ setup_deleted' = IF ~won /\ fda # no_static_fields
                             THEN setup_deleted \cup {fda} ELSE setup_deleted
       /\ setup_thr' = [setup_thr EXCEPT ![t].pc = "done", ![t].won = won]
    /\ UNCHANGED <<holder_fields, no_static_fields, setup_fieldinit_count, setup_arrays>>
    /\ UNCHANGED NotSetup

\* 546-551: a new KlassTrainingData has no field array and a counter of 0
InitSetup ==
    /\ InitIdle
    /\ InitValidateUnused
    /\ InitTrainingUnused
    /\ InitDoitUnused
    /\ InitRelocateUnused
    /\ InitExitUnused
    /\ InitCompareUnused
    /\ InitStoreUnused
    /\ InitConcurrentUnused
    /\ InitFieldInitUnused
    /\ InitOrderUnused
    /\ InitMakeUnused
    /\ InitLazyUnused
    /\ InitAlternateUnused
    /\ holder_fields \in [1..NumStatics -> FieldKinds]
    /\ static_fields = 0
    /\ no_static_fields = 0
    /\ setup_fieldinit_count = 0
    /\ setup_arrays = [t \in Threads |-> <<>>]
    /\ setup_deleted = {}
    /\ setup_installs = 0
    /\ setup_thr = [t \in Threads |-> [pc |-> "start", i |-> 0, tmp |-> 0,
                                       fda |-> 0, won |-> FALSE]]

NextSetup ==
    \E t \in Threads :
        \/ SetupLoad(t)
        \/ SetupScan(t)
        \/ SetupIncrement(t)
        \/ SetupEmpty(t)
        \/ SetupInstall(t)

SpecSetup == InitSetup /\ [][NextSetup]_vars

\* =================================================================== claims
SeqNames == {"boot", "boot2", "platform", "app"}

\* The loader category a sequence is recorded for
SeqLoader(name) == IF name = "boot2" THEN "boot" ELSE name

\* The two archives' tables, each with the classes that were in a base archive
\* when it was recorded
RecordedTables ==
    { [table |-> static_preloaded_klasses, base |-> {}],
      [table |-> dynamic_preloaded_klasses, base |-> shared] }

\* The vm classes: the vmClasses entries and their supertypes
IsVmKlass(k) == \E r \in Loaded : klass[r].vm_root /\ k \in SuperTypes(r)

RECURSIVE SuperChain(_)
\* the superclasses of k, nearest first, as a set
SuperChain(k) ==
    IF java_super(k) = NoKlass THEN {}
    ELSE {java_super(k)} \cup SuperChain(java_super(k))

DirectSupers(k) ==
    (IF java_super(k) = NoKlass THEN {} ELSE {java_super(k)}) \cup Range(local_interfaces(k))

\* k passes every filter of the pass that records sequence `name`
EligibleFor(name, base, k) ==
    /\ ~IsVmKlass(k)
    /\ ~is_hidden(k)
    /\ klass[k].loader_type = SeqLoader(name)
    /\ name = "boot" => is_java_base(k)
    /\ name = "boot2" => ~is_java_base(k)
    /\ k \notin base
    /\ ~not_from_modules_image(k)

RECURSIVE EligibleSupers(_, _, _)
\* the supertypes of k reached through direct supertypes that are all eligible
EligibleSupers(name, base, k) ==
    LET d == { x \in DirectSupers(k) : EligibleFor(name, base, x) }
    IN  d \cup UNION { EligibleSupers(name, base, x) : x \in d }

Before(s, x, i) == \E j \in 1..(i - 1) : s[j] = x

\* C1 as stated: every class of C's superclass chain or local interfaces that
\* is of C's loader category and no vm class is in C's sequence, before C.
C1_AsStated ==
    \A t \in RecordedTables : \A name \in SeqNames :
        LET s == t.table[name].elems IN
        \A i \in 1..Len(s) :
            \A x \in SuperChain(s[i]) \cup Range(local_interfaces(s[i])) :
                (klass[x].loader_type = klass[s[i]].loader_type /\ ~IsVmKlass(x))
                    => Before(s, x, i)

\* C1, amended: every direct superclass or local interface of C that itself
\* passes the filters of C's pass, and every supertype reached through such
\* classes, is in C's sequence, strictly before C.
C1_DependenciesFirst ==
    \A t \in RecordedTables : \A name \in SeqNames :
        LET s == t.table[name].elems IN
        \A i \in 1..Len(s) :
            \A x \in EligibleSupers(name, t.base, s[i]) : Before(s, x, i)

\* a sequence holds a class after its direct superclass or interface
C1_Witness ==
    \E t \in RecordedTables : \E name \in SeqNames :
        LET s == t.table[name].elems IN
        \E i \in 1..Len(s) : \E x \in DirectSupers(s[i]) : Before(s, x, i)

NoDuplicates(s) == \A i, j \in 1..Len(s) : i # j => s[i] # s[j]

\* the table record_preloaded_klasses writes in this run
CurrentTable == IF run = "static" THEN static_preloaded_klasses ELSE dynamic_preloaded_klasses

\* C2: once record_preloaded_klasses has run, no class occurs twice across the
\* vm-class set and the four sequences of the archive, the classes of the base
\* archive's sequences that initialize() added were added once, and neither
\* "must be" (maybe_record) nor "must add only once" has failed.
C2_Disjoint ==
    /\ (dump = "initialized" /\ recorded) =>
           /\ NoDuplicates(vm_classes.elems \o CurrentTable.boot.elems
                             \o CurrentTable.boot2.elems \o CurrentTable.platform.elems
                             \o CurrentTable.app.elems)
           /\ NoDuplicates(preloaded_classes.elems)
    /\ assert_failed \cap {"maybe_record: must be", "must add only once"} = {}

\* a dynamic dump has recorded a class on top of a base archive's sequence
C2_Witness ==
    /\ run = "dynamic" /\ dump = "initialized" /\ recorded
    /\ \E name \in SeqNames : Len(static_preloaded_klasses[name].elems) > 0
    /\ \E name \in SeqNames : Len(dynamic_preloaded_klasses[name].elems) > 0

\* the step is a call of can_archive_resolved_klass, or repeats one
KlassCall == last'.op = "klass"

InitiatedUnchanged == UNCHANGED <<platform_initiated_classes, app_initiated_classes>>

\* C3: for a hidden holder can_archive_resolved_klass returns false, whatever
\* the target, and changes neither initiated table.
C3_HiddenHolder ==
    [][(KlassCall /\ is_hidden(last'.holder))
           => (last'.ret = FALSE /\ InitiatedUnchanged)]_vars

\* a hidden holder was refused its own superclass
C3_Witness ==
    /\ last.op = "klass" /\ is_hidden(last.holder)
    /\ last.target = java_super(last.holder)
    /\ last.ret = FALSE

\* C4: for a non-hidden holder and an instance class that is one of its
\* supertypes can_archive_resolved_klass returns true, whatever the loaders and
\* whether or not either is a vm or preloaded class, and changes neither
\* initiated table.
C4_Supertype ==
    [][(/\ KlassCall
        /\ ~is_hidden(last'.holder)
        /\ last'.target # ArrayKlass
        /\ last'.target \in SuperTypes(last'.holder))
           => (last'.ret = TRUE /\ InitiatedUnchanged)]_vars

\* a holder was granted its direct supertype, a class of another loader that
\* is not preloaded
C4_Witness ==
    /\ last.op = "klass" /\ ~is_hidden(last.holder)
    /\ last.target \in DirectSupers(last.holder)
    /\ class_loader(last.target) # class_loader(last.holder)
    /\ ~is_preloaded_class(last.target)
    /\ last.ret = TRUE

\* C5: for a non-hidden vm holder and an instance class that is none of its
\* supertypes, can_archive_resolved_klass returns true iff the target is a vm
\* class too; being preloaded is not enough.
C5_VmHolder ==
    [][(/\ KlassCall
        /\ ~is_hidden(last'.holder)
        /\ IsVmKlass(last'.holder)
        /\ last'.target # ArrayKlass
        /\ last'.target \notin SuperTypes(last'.holder))
           => (last'.ret <=> IsVmKlass(last'.target))]_vars

\* a vm holder was refused a class that is preloaded but no vm class
C5_Witness ==
    /\ last.op = "klass" /\ IsVmKlass(last.holder)
    /\ last.target # ArrayKlass
    /\ last.target \notin SuperTypes(last.holder)
    /\ is_preloaded_class(last.target) /\ ~IsVmKlass(last.target)
    /\ last.ret = FALSE

Count(s, x) == Cardinality({ i \in 1..Len(s) : s[i] = x })

\* what C6 says of a holder of one category: own is the category's table,
\* other the other one, initiates whether the target's loader is not the
\* category's loader
C6_Case(own, own_after, other, other_after, target, initiates) ==
    /\ last'.ret = TRUE
    /\ other_after = other
    /\ IF initiates
       THEN /\ Count(own_after.elems, target) = 1
            /\ \A k \in Loaded : k # target => Count(own_after.elems, k) = Count(own.elems, k)
       ELSE own_after = own

\* C6: for a non-hidden, non-vm platform (app) holder and a preloaded class
\* that is none of its supertypes, can_archive_resolved_klass returns true and
\* the platform-initiated (app-initiated) table holds the target afterwards,
\* once, exactly when the target's defining loader is not the platform
\* (system) loader; otherwise the tables are unchanged.
C6_Initiated ==
    [][(/\ KlassCall
        /\ ~is_hidden(last'.holder)
        /\ ~IsVmKlass(last'.holder)
        /\ last'.target # ArrayKlass
        /\ last'.target \notin SuperTypes(last'.holder)
        /\ is_preloaded_class(last'.target))
           => /\ is_shared_platform_class(last'.holder) =>
                     C6_Case(platform_initiated_classes, platform_initiated_classes',
                             app_initiated_classes, app_initiated_classes',
                             last'.target, class_loader(last'.target) # "platform")
              /\ is_shared_app_class(last'.holder) =>
                     C6_Case(app_initiated_classes, app_initiated_classes',
                             platform_initiated_classes, platform_initiated_classes',
                             last'.target, class_loader(last'.target) # "app")]_vars

\* a platform holder was granted a preloaded boot class, now platform-initiated
C6_Witness ==
    /\ last.op = "klass" /\ is_shared_platform_class(last.holder)
    /\ last.target # ArrayKlass
    /\ last.target \notin SuperTypes(last.holder)
    /\ class_loader(last.target) = "boot"
    /\ last.ret = TRUE
    /\ Count(platform_initiated_classes.elems, last.target) = 1

\* C7: can_archive_resolved_field returns true iff the field's class entry is
\* resolved, can_archive_resolved_klass accepts that class for the holder, and
\* find_field finds the field and it is not static.
C7_Field ==
    [][last'.op = "field"
           => (last'.ret <=>
                  /\ last'.klass_resolved
                  /\ can_archive_resolved_klass(last'.holder, last'.target).ret
                  /\ last'.found = "instance")]_vars

\* a static field of an archivable class was refused
C7_Witness ==
    /\ last.op = "field" /\ last.klass_resolved /\ last.found = "static"
    /\ can_archive_resolved_klass(last.holder, last.target).ret
    /\ last.ret = FALSE

Logged == Len(rt_log') = Len(rt_log) + 1
Mismatch(e) == e.resolved /\ e.actual.kind = "klass" /\ ~e.actual.same
Exempt(e) ==
    /\ e.actual.is_shared
    /\ e.actual.name = archived[e.klass].name
    /\ e.actual.name = HolderName

\* C9: when the replay of the initiated-only or of the preload sequence gets
\* a class other than the recorded one, the process aborts, unless that class
\* is archived, has the recorded name and the name is a regenerated holder's:
\* then the replay goes on to the next entry.
C9_Mismatch ==
    [][(Logged /\ Mismatch(rt_log'[Len(rt_log')]))
           => IF Exempt(rt_log'[Len(rt_log')])
              THEN /\ rt' = [rt EXCEPT !.i = @ + 1]
                   /\ UNCHANGED <<is_loaded, class_preloading_finished>>
              ELSE rt'.pc = "aborted"]_vars

\* an exempt mismatch was passed over and a later one aborted the process
C9_Witness ==
    /\ rt.pc = "aborted"
    /\ Mismatch(rt_log[Len(rt_log)]) /\ ~Exempt(rt_log[Len(rt_log)])
    /\ \E j \in 1..(Len(rt_log) - 1) : Mismatch(rt_log[j]) /\ Exempt(rt_log[j])

EventsBefore(j, phase, table) ==
    { h \in 1..(j - 1) : rt_log[h].phase = phase /\ rt_log[h].table = table }

\* C10: within one call, every entry of a table's initiated-only sequence is
\* resolved before any entry of its preload sequence is looked at, the
\* preload entries are taken in index order, and a preload entry is resolved
\* exactly when it was not loaded.
C10_Order ==
    \A j \in 1..Len(rt_log) :
        LET e == rt_log[j]
            initiated == initiated_klasses(e.table, rt.loader)
        IN  /\ e.phase = "initiated" =>
                /\ e.resolved
                /\ EventsBefore(j, "preload", e.table) = {}
                /\ e.klass = initiated.elems[e.idx]
            /\ e.phase = "preload" =>
                /\ e.resolved <=> ~e.loaded_before
                /\ \A n \in 1..Len(initiated.elems) :
                       \E h \in EventsBefore(j, "initiated", e.table) :
                           rt_log[h].idx = n /\ rt_log[h].resolved
                /\ { rt_log[h].idx : h \in EventsBefore(j, "preload", e.table) }
                       = 1..(e.idx - 1)
                /\ rt.pc \in {"initiated", "preload", "aborted", "crashed"} =>
                       e.klass = preloaded_klasses(e.table, rt.loader).elems[e.idx]

\* an initiated-only entry was resolved, then a preload entry of that table
C10_Witness ==
    \E j \in 1..Len(rt_log) :
        /\ rt_log[j].phase = "preload"
        /\ rt_log[j].resolved /\ rt_log[j].actual.same
        /\ EventsBefore(j, "initiated", rt_log[j].table) # {}

\* the sequence each invocation of a startup replays
CallSequence == <<"boot", "boot2", "platform", "app">>

\* C11: the invocations replay boot, boot2, platform and app in this order:
\* every preload entry looked at in the n-th invocation belongs to the n-th
\* sequence, so platform and app entries come only after both boot
\* invocations, and within an invocation no entry of the static archive
\* follows one of the dynamic archive.
C11_ReplayOrder ==
    \A j \in 1..Len(rt_log) :
        /\ rt_log[j].phase = "preload" =>
               archived[rt_log[j].klass].slot = CallSequence[rt_calls]
        /\ archived[rt_log[j].klass].archive = rt_log[j].table
        /\ \A h \in 1..(j - 1) :
               rt_log[h].table = "dynamic" => rt_log[j].table = "dynamic"

\* the second boot invocation replayed boot2 of the static, then of the
\* dynamic archive
C11_Witness ==
    /\ rt_calls = 2
    /\ \E j \in 1..Len(rt_log) : \E h \in 1..(j - 1) :
           /\ rt_log[h].table = "static" /\ rt_log[j].table = "dynamic"
           /\ archived[rt_log[h].klass].slot = "boot2"
           /\ archived[rt_log[j].klass].slot = "boot2"

\* C12: class_preloading_finished() is true when archives are not in use;
\* otherwise it is true only once the app loader's invocation has run, or,
\* in a run without platform/app archived classes, once an invocation for a
\* loader other than boot has been made.
C12_FinishedOnlyAtEnd ==
    /\ ~UseSharedSpaces => ClassPreloadingFinished
    /\ (UseSharedSpaces /\ ClassPreloadingFinished) =>
           IF has_platform_or_app_classes
           THEN rt_calls = Len(CallerLoaders) /\ rt.loader = "app"
                /\ rt.pc \in {"idle", "exited"}
           ELSE rt_calls >= 3 /\ rt.pc = "idle"

\* the app loader's invocation has returned and set the flag
C12_Witness ==
    /\ UseSharedSpaces /\ has_platform_or_app_classes
    /\ class_preloading_finished
    /\ rt.pc = "idle" /\ rt_calls = Len(CallerLoaders)
    /\ \E j \in 1..Len(rt_log) : archived[rt_log[j].klass].slot = "app"

\* C13: no step resets the flag, nor what class_preloading_finished() returns
C13_Monotonic ==
    [][/\ class_preloading_finished => class_preloading_finished'
       /\ ClassPreloadingFinished => ClassPreloadingFinished']_vars

\* the flag was set by the platform loader's early return and the app
\* loader's invocation stored it again
C13_Witness ==
    /\ UseSharedSpaces /\ ~has_platform_or_app_classes
    /\ class_preloading_finished
    /\ rt_calls = Len(CallerLoaders)

\* C14: validate returns true exactly when the header's base header checksum
\* and every base region checksum equal the current base archive's; any
\* mismatch gives false.
C14_Validate ==
    validated.op = "validate" =>
        (validated.ret <=>
            /\ validated.header.crc = validated.base.crc
            /\ \A i \in 1..NRegions :
                   validated.header.region_crc[i] = validated.base.region_crc[i])

\* a header written on top of one base archive is validated against another
\* that differs in its last region only
C14_Witness ==
    /\ validated.op = "validate"
    /\ ~validated.ret
    /\ validated.header.crc = validated.base.crc
    /\ \A i \in 1..(NRegions - 1) :
           validated.header.region_crc[i] = validated.base.region_crc[i]

\* C15: after notice_compilation with level L the record's level is simple if
\* L is simple, else the larger of L and the level stored before (L itself
\* for a record the call created); so it decreases only through simple.
C15_Level ==
    [][noticed'.op = "notice" =>
           LET old == method_training_data_set[noticed'.mtd]
               new == method_training_data_set'[noticed'.mtd]
               L == noticed'.level
           IN  /\ new.present
               /\ L = CompLevel_simple => new.level = CompLevel_simple
               /\ (L # CompLevel_simple /\ old.present) =>
                      /\ new.level = IF L > old.level THEN L ELSE old.level
                      /\ new.level >= old.level
               /\ (L # CompLevel_simple /\ ~old.present) => new.level = L]_vars

\* a compilation at a lower level left the higher stored level in place
C15_Witness ==
    /\ noticed.op = "notice"
    /\ noticed.level # CompLevel_simple
    /\ method_training_data_set[noticed.mtd].level > noticed.level
    /\ method_training_data_set[noticed.mtd].level # CompLevel_simple

\* C16 as stated: a record's only_inlined is true exactly while every
\* notice_compilation observed for it was inlined.
C16_AsStated ==
    \A n \in MethodNames :
        (method_training_data_set[n].present /\ observed_of_record[n].calls) =>
            (method_training_data_set[n].only_inlined
                 <=> observed_of_record[n].all_inlined)

\* C16, amended: only_inlined is true exactly while every notice_compilation
\* observed for the record was inlined and, if the record was loaded from a
\* profile, the profile had the flag set.
C16_OnlyInlined ==
    \A n \in MethodNames :
        method_training_data_set[n].present =>
            (method_training_data_set[n].only_inlined
                 <=> /\ observed_of_record[n].all_inlined
                     /\ observed_of_record[n].loaded => observed_of_record[n].loaded_flag)

\* an inlined compilation was noticed after one that was not, and the flag
\* of the record created by these calls is still false
C16_Witness ==
    /\ noticed.op = "notice" /\ noticed.inlined
    /\ ~observed_of_record[noticed.mtd].loaded
    /\ ~observed_of_record[noticed.mtd].all_inlined
    /\ ~method_training_data_set[noticed.mtd].only_inlined


\* ------------------------------------------------------------ dynamic dump
DoitDone == doit_pc = Len(DoitCalls) + 1

\* every call of a set comes before every call of another in doit_log
CalledBefore(A, B) ==
    \A i, j \in 1..Len(doit_log) :
        doit_log[i] \in A /\ doit_log[j] \in B => i < j

Occurs(call) == Cardinality({ i \in 1..Len(doit_log) : doit_log[i] = call })

AuxiliaryTableWrites ==
    { "SymbolTable::write_to_archive", "SystemDictionaryShared::write_to_archive",
      "ClassPrelinker::record_preloaded_klasses", "TrainingData::dump_training_data",
      "serialize" }

AuxiliaryTableAdjusts ==
    { "adjust_lambda_proxy_class_dictionary", "adjust_method_info_dictionary",
      "adjust_training_data_dictionary" }

CopyMetadata == { "dump_rw_metadata", "dump_ro_metadata" }

ResolveEmbeddedPointers == { "relocate_metaspaceobj_embedded_pointers", "relocate_roots" }

SortAndRelayout == { "sort_methods", "make_klasses_shareable" }

\* the calls that change what is in the buffer
BufferWriters ==
    CopyMetadata \cup ResolveEmbeddedPointers \cup AuxiliaryTableWrites
        \cup SortAndRelayout \cup AuxiliaryTableAdjusts \cup {"relocate_to_requested"}

\* C17 as stated: the symbol table, the dictionaries, the preload sets and
\* the training data are written only after the methods were sorted.
C17_AsStated == CalledBefore({"sort_methods"}, AuxiliaryTableWrites)

\* C17 (as the code orders the phases): a dump that does not abort gathers the
\* objects, reserves the buffer, copies the metadata, resolves the embedded
\* pointers, writes the auxiliary tables, sorts and relays out the methods,
\* adjusts the dictionaries, relocates to the requested addresses and writes,
\* each call once; after relocate_to_requested nothing changes the buffer.
C17_PhaseOrder ==
    /\ \A i \in 1..Len(doit_log) : Occurs(doit_log[i]) = 1
    /\ DoitDone /\ ~dumptime_table_empty
           => \A i \in 1..Len(DoitCalls) : Occurs(DoitCalls[i]) = 1
    /\ CalledBefore({"gather_source_objs"}, {"reserve_buffer"})
    /\ CalledBefore({"reserve_buffer"}, CopyMetadata)
    /\ CalledBefore(CopyMetadata, ResolveEmbeddedPointers)
    /\ CalledBefore(ResolveEmbeddedPointers, AuxiliaryTableWrites)
    /\ CalledBefore(AuxiliaryTableWrites, SortAndRelayout)
    /\ CalledBefore(SortAndRelayout, AuxiliaryTableAdjusts)
    /\ CalledBefore(AuxiliaryTableAdjusts, {"relocate_to_requested"})
    /\ CalledBefore({"relocate_to_requested"}, {"write_archive"})
    /\ CalledBefore(BufferWriters \ {"relocate_to_requested"}, {"relocate_to_requested"})

C17_Witness ==
    /\ DoitDone
    /\ archive_file.regions
    /\ Occurs("sort_methods") = 1
    /\ Occurs("relocate_to_requested") = 1

\* the supertypes sort_methods descends into from a class
DirectSuperTypes(k) ==
    (IF java_super(k) = NoKlass THEN {} ELSE {java_super(k)})
        \cup { local_interfaces(k)[i] : i \in 1..Len(local_interfaces(k)) }

SortEvents(op, k) ==
    { i \in 1..Len(sort_log) : sort_log[i] = [op |-> op, klass |-> k] }

\* C18: when the methods of a class are sorted, its superclass and each of its
\* local interfaces outside the base archive have been sorted, relaid out if
\* linked, and re-marked.
C18_SupertypesFirst ==
    \A j \in 1..Len(sort_log) :
        sort_log[j].op = "sort" =>
            \A s \in DirectSuperTypes(sort_log[j].klass) \ shared :
                /\ \E i \in 1..(j - 1) : sort_log[i] = [op |-> "sort", klass |-> s]
                /\ \E i \in 1..(j - 1) : sort_log[i] = [op |-> "mark", klass |-> s]
                /\ is_linked[s] =>
                       \E i \in 1..(j - 1) : sort_log[i] = [op |-> "relayout", klass |-> s]

\* a class comes before one of its supertypes in klasses() and both are sorted
C18_Witness ==
    \E i, j \in 1..Len(builder_klasses) :
        /\ i < j
        /\ builder_klasses[j] \in DirectSuperTypes(builder_klasses[i])
        /\ is_linked[builder_klasses[j]]
        /\ SortEvents("sort", builder_klasses[i]) # {}

\* C19: a class of the base archive or one without a java mirror is left
\* alone by sort_methods, and once sort_methods() has run each class of the
\* dynamic archive was cleared, sorted and re-marked exactly once.
C19_SortedOnce ==
    /\ \A k \in Loaded :
           k \in shared \/ k \notin java_mirror =>
               sort_methods(SortState, k) = SortState
    /\ \A k \in Loaded : \A op \in {"clear", "sort", "mark"} :
           /\ Cardinality(SortEvents(op, k)) <= 1
           /\ k \in shared => SortEvents(op, k) = {}
           /\ Occurs("sort_methods") = 1 /\ k \in ArchivedKlasses
                  => Cardinality(SortEvents(op, k)) = 1

\* a class was reached as a supertype and then again from klasses()
C19_Witness ==
    /\ Occurs("sort_methods") = 1
    /\ \E i, j \in 1..Len(builder_klasses) :
           /\ i < j
           /\ builder_klasses[j] \in DirectSuperTypes(builder_klasses[i])
           /\ Cardinality(SortEvents("sort", builder_klasses[j])) = 1

\* C20: with an empty dump-time table doit() makes no call at all: no header,
\* no buffer, no archive opened and no region written.
C20_EmptyAborts ==
    dumptime_table_empty => doit_log = <<>> /\ archive_file = NoArchive

C20_Witness == dumptime_table_empty /\ DoitDone /\ Loaded # {}


\* ------------------------------------------------ filters of maybe_record
\* the classes of sequence `name` of a table
SeqKlasses(table, name) == Range(table[name].elems)

\* C26: every class of every preload sequence is no vm class, is not hidden,
\* has the loader category of its sequence, was not in a base archive when
\* the sequence was recorded, and does not come from a named module outside
\* the modules image.
C26_OnlyFiltered ==
    \A t \in RecordedTables : \A name \in SeqNames :
        \A k \in SeqKlasses(t.table, name) :
            /\ ~IsVmKlass(k)
            /\ ~klass[k].is_hidden
            /\ klass[k].loader_type = SeqLoader(name)
            /\ k \notin t.base
            /\ ~(klass[k].scp_in_named_module /\ ~klass[k].scp_is_modules_image)

\* a sequence was recorded while a class of each refused kind was among the
\* classes of the dump
C26_Witness ==
    /\ dump = "initialized" /\ recorded
    /\ \E name \in SeqNames : SeqKlasses(CurrentTable, name) # {}
    /\ \E k \in ArchivedKlasses :
           \/ klass[k].is_hidden
           \/ klass[k].scp_in_named_module /\ ~klass[k].scp_is_modules_image
           \/ IsVmKlass(k)
           \/ klass[k].loader_type = "custom"

\* a boot class that passes the filters shared by both boot passes
EligibleBoot(k) ==
    /\ ~IsVmKlass(k)
    /\ ~klass[k].is_hidden
    /\ klass[k].loader_type = "boot"
    /\ ~(klass[k].scp_in_named_module /\ ~klass[k].scp_is_modules_image)

PositionIn(s, x) == CHOOSE i \in 1..Len(s) : s[i] = x

\* C27: _boot holds only boot classes of java.base and _boot2 only boot
\* classes outside java.base, no class is in both, every boot class of the dump
\* that passes the other filters is in the one its module selects, and the
\* classes of _boot were recorded before those of _boot2.
C27_BootSplit ==
    /\ \A t \in RecordedTables :
           /\ \A k \in SeqKlasses(t.table, "boot") :
                  klass[k].loader_type = "boot" /\ klass[k].module = "java.base"
           /\ \A k \in SeqKlasses(t.table, "boot2") :
                  klass[k].loader_type = "boot" /\ klass[k].module # "java.base"
           /\ SeqKlasses(t.table, "boot") \cap SeqKlasses(t.table, "boot2") = {}
    /\ (dump = "initialized" /\ recorded /\ PreloadSharedClasses) =>
           /\ \A k \in ArchivedKlasses :
                  EligibleBoot(k) =>
                      IF klass[k].module = "java.base"
                      THEN k \in SeqKlasses(CurrentTable, "boot")
                      ELSE k \in SeqKlasses(CurrentTable, "boot2")
           /\ \A a \in SeqKlasses(CurrentTable, "boot") :
                  \A b \in SeqKlasses(CurrentTable, "boot2") :
                      PositionIn(preloaded_classes.elems, a)
                          < PositionIn(preloaded_classes.elems, b)

\* one dump filled both boot sequences, the second with a class of the
\* unnamed module
C27_Witness ==
    /\ dump = "initialized" /\ recorded
    /\ SeqKlasses(CurrentTable, "boot") # {}
    /\ \E k \in SeqKlasses(CurrentTable, "boot2") : klass[k].module = "unnamed"


\* ------------------------------------------------- sort_methods, per class
SortDone == Occurs("sort_methods") = 1

\* the classes sort_methods has worked on
Processed == { sort_log[i].klass : i \in 1..Len(sort_log) }

\* C29 as stated: the methods of a class are sorted, and its dispatch tables
\* laid out again, only if the class is linked.
C29_AsStated ==
    \A i \in 1..Len(sort_log) :
        sort_log[i].op \in {"sort", "relayout"} => is_linked[sort_log[i].klass]

\* C29 (as the code does it): the methods of every class sort_methods works on
\* are sorted, linked or not; the dispatch tables are laid out again exactly
\* for the linked ones, right after the sort.
C29_RelayoutOnlyLinked ==
    /\ \A k \in Processed : SortEvents("sort", k) # {}
    /\ \A k \in Processed : (SortEvents("relayout", k) # {}) <=> is_linked[k]
    /\ \A i \in 1..Len(sort_log) :
           sort_log[i].op = "relayout" =>
               i > 1 /\ sort_log[i - 1] = [op |-> "sort", klass |-> sort_log[i].klass]

\* sort_methods() has sorted an unlinked class and a linked one
C29_Witness ==
    /\ SortDone
    /\ \E k \in Processed : ~is_linked[k]
    /\ \E k \in Processed : is_linked[k]

\* the one event op of class k in sort_log
SortEvent(op, k) == CHOOSE i \in SortEvents(op, k) : TRUE

\* C30: the pointer marks of a class are cleared before its methods are
\* sorted and its tables laid out, and set again after that; once
\* sort_methods() is through, the pointers of every class of the dump are
\* marked and no class has been cleared last.
C30_Remarked ==
    /\ \A k \in Processed :
           /\ SortEvents("clear", k) # {} /\ SortEvents("mark", k) # {}
           /\ \A i \in SortEvents("sort", k) \cup SortEvents("relayout", k) :
                  /\ \A c \in SortEvents("clear", k) : c < i
                  /\ \A m \in SortEvents("mark", k) : i < m
    /\ SortDone =>
           /\ Processed = ArchivedKlasses
           /\ ArchivedKlasses \subseteq ptr_marked

\* a class first reached as the supertype of another has its marks back
C30_Witness ==
    /\ SortDone
    /\ \E i, j \in 1..Len(builder_klasses) :
           /\ i < j
           /\ builder_klasses[j] \in DirectSuperTypes(builder_klasses[i])
           /\ SortEvent("clear", builder_klasses[i]) < SortEvent("clear", builder_klasses[j])
           /\ builder_klasses[j] \in ptr_marked


\* ------------------------------------------------------------- relocation
\* every pointer field written into the buffer
AllFields ==
    { embedded[o] : o \in DOMAIN embedded }
        \cup { klass_array[i] : i \in DOMAIN klass_array }
        \cup { aot_data[f] : f \in DOMAIN aot_data \cap AotFields }

\* C23: after relocate_to_requested every pointer field of the buffer is null
\* or an address of the new archive or of the base archive; and a field that
\* went through relocate_src_pointer_to_buffered is, if its source was not
\* null, marked and points at the copy of the source (at the source itself
\* when that is in the base archive), and is null and unmarked otherwise.
C23_RoundTrip ==
    /\ reloc_pc = "requested" =>
           \A f \in AllFields :
               /\ f.value.space \in {"null", "requested", "base"}
               /\ f.marked <=> f.value # NullPtr
    /\ reloc_pc \in {"aot", "requested"} =>
           \A n \in AotFields :
               LET src == aot_data.src[n] IN
               IF src = NoKlass
               THEN aot_data[n] = Field(NullPtr, FALSE)
               ELSE /\ aot_data[n].marked
                    /\ aot_data[n].value.obj = src
                    /\ aot_data[n].value.space =
                           IF src \in BaseObjs THEN "base"
                           ELSE IF reloc_pc = "aot" THEN "buffer" ELSE "requested"

\* relocate_to_requested has run over a null field, a field into the base
\* archive and fields of every kind into the new archive
C23_Witness ==
    /\ reloc_pc = "requested"
    /\ aot_data._m = Field(NullPtr, FALSE)
    /\ aot_data._k1.value.space = "base"
    /\ aot_data._k2.value.space = "requested"
    /\ \E o \in DOMAIN embedded : embedded[o].value.space = "requested"
    /\ \E i \in DOMAIN klass_array : klass_array[i].value.space = "requested"


\* ------------------------------------ dump_at_exit, check_for_dynamic_dump
LastExitCall == exit_calls[Len(exit_calls)]

CdsLogged(line) == \E i \in 1..Len(cds_log) : cds_log[i] = line

\* dump_at_exit went past its first test and one of its preparatory steps threw
PreparatoryStepFailed ==
    /\ exit_calls # <<>>
    /\ LastExitCall.op = "exit"
    /\ LastExitCall.link # "none" \/ LastExitCall.init # "none"

\* C21: when link_shared_classes or init_dumptime_table throws in
\* dump_at_exit, the failure is logged, no exception stays pending, dynamic
\* dumping is disabled, the VM operation is not executed and the VM is not
\* ended.
C21_AsStated ==
    PreparatoryStepFailed =>
        /\ CdsLogged("error: Dynamic dump has failed")
        /\ pending_exception = "none"
        /\ ~DynamicDumpSharedSpaces
        /\ vm_ops = 0
        /\ vm_state # "aborted"

Checked == exit_calls # <<>>

DumpRequested == RecordDynamicDumpInfo \/ ArchiveClassesAtExit

\* C22 as stated: without a base archive check_for_dynamic_dump logs the
\* condition, disables dynamic dumping and the process goes on, whichever
\* option asked for the dump.
C22_AsStated ==
    (Checked /\ DumpRequested /\ ~base_loaded) =>
        /\ cds_log # <<>>
        /\ ~DynamicDumpSharedSpaces
        /\ vm_state # "exited"

\* C22 (as the code does it): without a base archive a dump asked for by
\* -XX:ArchiveClassesAtExit is answered by a warning, dynamic dumping is
\* disabled and the process goes on; one asked for by -XX:+RecordDynamicDumpInfo
\* is answered by an error and the VM exits during initialization.  Either
\* way no dump is made.  With a base archive the flag is left alone.
C22_DisabledOrExit ==
    /\ (Checked /\ DumpRequested /\ ~base_loaded) =>
           /\ vm_ops = 0
           /\ IF ArchiveClassesAtExit
              THEN /\ CdsLogged("warning: -XX:ArchiveClassesAtExit")
                   /\ ~DynamicDumpSharedSpaces
                   /\ vm_state # "exited"
              ELSE /\ CdsLogged("error: -XX:+RecordDynamicDumpInfo")
                   /\ vm_state = "exited"
    /\ (Len(exit_calls) = 1 /\ base_loaded) =>
           /\ DynamicDumpSharedSpaces = DumpRequested
           /\ cds_log = <<>>
           /\ vm_state = "running"

\* the process ran on without a base archive and made no dump at its exit
C22_Witness ==
    /\ ArchiveClassesAtExit /\ ~base_loaded
    /\ Len(exit_calls) = 2
    /\ LastExitCall.op = "exit: no dump"
    /\ vm_state = "exiting"


\* ------------------------------------------------------ method comparator
Cmp(a, b) == dynamic_dump_method_comparator(a, b).ret

\* the place of a name in the final archives, from its region and slot
OffsetOrder(a, b) ==
    \/ sym_loc[a].region = "static" /\ sym_loc[b].region = "buffer"
    \/ sym_loc[a].region = sym_loc[b].region /\ sym_loc[a].slot < sym_loc[b].slot

\* C28: the comparator returns 0 exactly for the same name Symbol, -1 or 1
\* by the order of the names' places in the archives and not by their live
\* addresses, with cmp(a,b) = -cmp(b,a); it is transitive; two distinct
\* Symbols never have the same offset and the assertion never fails.
C28_Comparator ==
    sym_loc # <<>> =>
        /\ \A a, b \in Symbols :
               /\ (Cmp(a, b) = 0) <=> (a = b)
               /\ Cmp(a, b) = -Cmp(b, a)
               /\ (Cmp(a, b) = -1) <=> OffsetOrder(a, b)
               /\ Cmp(a, b) \in {-1, 0, 1}
               /\ ~dynamic_dump_method_comparator(a, b).failed
               /\ a # b => any_to_offset_u4(a) # any_to_offset_u4(b)
        /\ \A a, b, c \in Symbols :
               Cmp(a, b) <= 0 /\ Cmp(b, c) <= 0 => Cmp(a, c) <= 0
        /\ cmp_last.op = "compare" =>
               /\ cmp_last.result = dynamic_dump_method_comparator(cmp_last.a, cmp_last.b)
               /\ ~cmp_last.result.failed

\* two methods were compared whose names lie the other way round in the
\* dumping process than in the archive
C28_Witness ==
    /\ cmp_last.op = "compare"
    /\ cmp_last.result.ret = -1
    /\ sym_live_addr[cmp_last.a] > sym_live_addr[cmp_last.b]
    /\ sym_loc[cmp_last.a].region = "static"
    /\ sym_loc[cmp_last.b].region = "buffer"


\* ------------------------------------------------------- store_results
\* C24: when the collection loop of store_results has ended, prepare_to_dump
\* was called on every record of the list, and the list holds every record
\* of the table, those installed by preparing others included.
C24_AsStated ==
    store_pc = "collected" =>
        /\ Range(tda) = td_table
        /\ Range(tda) \subseteq td_prepared


\* ------------------------------------- concurrent notice_compilation
\* every thread has returned from its calls, and there was a call
AllReturned ==
    /\ \A t \in Threads : thr[t].pc = "idle"
    /\ \E t \in Threads : thr[t].calls > 0

\* C25: after concurrent notice_compilation calls on one method, none at
\* the simple level, the stored level is the highest level noticed and
\* only_inlined is false if a call was not inlined.
C25_AsStated ==
    (AllReturned /\ ~noticed_so_far.simple) =>
        /\ mtd_record.level = noticed_so_far.max_level
        /\ noticed_so_far.not_inlined => ~mtd_record.only_inlined


\* ------------------------------------- out of memory while interning
\* the call that has just returned ran the loop over the pool of its class,
\* and interning the string of entry last.oom ran out of memory
InterningFailed ==
    /\ last.op = "resolve"
    /\ last.oom # 0
    /\ DumpSharedSpaces
    /\ constants[last.klass][last.oom].tag = "String"

\* C31: when interning a string runs out of memory in
\* dumptime_resolve_constants, the exception is pending when the call returns
\* and the entries from the failing one on are left as they were.
C31_OomPropagated ==
    [][ InterningFailed' =>
          /\ last'.exception
          /\ \A j \in last'.oom..MaxCpLen :
                 constants'[last'.klass][j] = constants[last'.klass][j] ]_vars

\* interning failed at the first entry and a string entry after it is left
\* unresolved
C31_Witness ==
    /\ InterningFailed
    /\ last.exception
    /\ last.oom = 1
    /\ constants[last.klass][2] = StringEntry

\* ------------------------------------- record_static_field_init
\* every call of record_static_field_init has returned
FieldCallsReturned == \A t \in Threads : fi_thr[t].pc = "idle"

\* the index of a field moves only 0 -> PENDING -> positive
IndexMovesForward ==
    \A f \in StaticFields :
        fieldinit_sequence_index'[f] # fieldinit_sequence_index[f] =>
            \/ fieldinit_sequence_index[f] = 0 /\ fieldinit_sequence_index'[f] = PENDING
            \/ fieldinit_sequence_index[f] = PENDING /\ fieldinit_sequence_index'[f] > 0

\* C32 as stated: the index of a field moves only 0 -> pending -> positive,
\* and when the concurrent calls on a field have returned, exactly one of
\* them has returned true.
C32_AsStated ==
    [][ /\ IndexMovesForward
        /\ FieldCallsReturned' =>
              \A f \in StaticFields : fi_calls'[f] > 0 => fi_true'[f] = 1 ]_vars

\* C32, amended: the index of a field moves only 0 -> pending -> positive,
\* and when the concurrent calls on a field have returned, exactly one has
\* returned true if the index was 0 before them, and none if
\* setup_static_fields had numbered the field.
C32_AtMostOnce ==
    [][ /\ IndexMovesForward
        /\ FieldCallsReturned' =>
              \A f \in StaticFields : fi_calls'[f] > 0 =>
                  fi_true'[f] = (IF f \in numbered_by_setup THEN 0 ELSE 1) ]_vars

\* two calls on one unnumbered field have returned, one of them with true
C32_Witness ==
    /\ FieldCallsReturned
    /\ \E f \in StaticFields :
        /\ f \notin numbered_by_setup
        /\ fi_calls[f] >= 2
        /\ fi_true[f] = 1
        /\ fieldinit_sequence_index[f] > 0

\* ------------------------------------- the order of the records in a dump
Sign(n) == IF n < 0 THEN -1 ELSE IF n > 0 THEN 1 ELSE 0

\* cmp(a, b) and cmp(b, a) have opposite signs
CmpAntisymmetric ==
    \A a, b \in TdAll :
        Sign(qsort_compare_tdata(a, b)) = 0 - Sign(qsort_compare_tdata(b, a))

\* a before b and b before c make a before c
CmpOrderTransitive ==
    \A a, b, c \in TdAll :
        (qsort_compare_tdata(a, b) < 0 /\ qsort_compare_tdata(b, c) < 0)
            => qsort_compare_tdata(a, c) < 0

\* a equal to b and b equal to c make a equal to c
CmpEquivalenceTransitive ==
    \A a, b, c \in TdAll :
        (qsort_compare_tdata(a, b) = 0 /\ qsort_compare_tdata(b, c) = 0)
            => qsort_compare_tdata(a, c) = 0

\* among class records and among the methods of one class, a non-zero number
\* comes before zero
CmpZeroesLast ==
    /\ \A a, b \in KlassRecords :
           (clinit_sequence_index[a.id] # 0 /\ clinit_sequence_index[b.id] = 0)
               => qsort_compare_tdata(a, b) < 0
    /\ \A a, b \in MethodRecords :
           (/\ KlassOf(a) = KlassOf(b)
            /\ last_compile_id[a.id] # 0
            /\ last_compile_id[b.id] = 0) => qsort_compare_tdata(a, b) < 0

\* C33: the comparison that sorts the training records is antisymmetric, its
\* order and its equivalence are transitive, and non-zero sequence numbers
\* and compile ids come before zero.
C33_AsStated ==
    tdata_cmp_last.op = "cmp" =>
        /\ CmpAntisymmetric
        /\ CmpOrderTransitive
        /\ CmpEquivalenceTransitive
        /\ CmpZeroesLast

\* ------------------------------------- the flag and the preloaded classes
\* C34: while the archive is in use with platform/app classes enabled and
\* class_preloading_finished() returns true, every class of every preload
\* sequence is loaded and no replay has failed with a pending exception.
C34_AsStated ==
    (UseSharedSpaces /\ has_platform_or_app_classes /\ ClassPreloadingFinished) =>
        /\ \A ik \in Archived : ik \in is_loaded
        /\ ~rt.exception

C37_AsStated ==
    /\ \A t \in Threads : (make_thr[t].pc # "idle") ~> (make_thr[t].pc = "idle")
    /\ (make_lock # 0) ~> (make_lock = 0)

\* C38: under concurrent calls of make on one method, the compile list is in
\* strictly descending order of compile id, holds every record the calls
\* have returned, and holds no two records of one compile id and top method.
C38_AsStated ==
    /\ \A i, j \in 1..Len(compile_list) :
           i < j => compile_list[i].cid > compile_list[j].cid
    /\ make_returned \subseteq { compile_list[i].id : i \in 1..Len(compile_list) }
    /\ \A i, j \in 1..Len(compile_list) :
           (compile_list[i].cid = compile_list[j].cid
            /\ compile_list[i].top = compile_list[j].top) => i = j

\* ------------------------------------- lazily created records
\* C39: every call that obtains a record for a key obtains the one record
\* the table holds for it, and no record is added by a lookup-only call or
\* by a call made with training disabled.
C39_AsStated ==
    /\ \A r \in td_returned : r.got # 0 => td_set[r.key] = r.got
    /\ \A a \in td_added :
           /\ a.op # "null_if_not_found"
           /\ have_data \/ collect_data

\* C40: over any sequence of dump attempts every finished run of doit has
\* executed post_dump exactly once, the early return included, and neither
\* the assert of initialize() nor the assert of dispose() has failed
C40_AsStated ==
    /\ (attempt_pc = "idle" /\ attempt_log # <<>>) => post_dumps = 1
    /\ attempt_asserts = {}

\* The array and the counter a single call of setup_static_fields leaves
\* for fields fs, the counter starting at n
RECURSIVE AloneFrom(_, _)
AloneFrom(fs, n) ==
    IF fs = <<>> THEN [array |-> <<>>, count |-> n]
    ELSE LET kind == Head(fs)
             m == IF kind = "dirty" THEN n + 1 ELSE n
             rest == AloneFrom(Tail(fs), m) IN
         [array |-> IF kind \in {"instance", "constant"} THEN rest.array
                    ELSE <<IF kind = "dirty" THEN m ELSE 0>> \o rest.array,
          count |-> rest.count]

SetupAllDone == \A t \in Threads : setup_thr[t].pc = "done"

\* C35: after any interleaving of racing calls of setup_static_fields for
\* one class exactly one array is installed, it was not deleted, the shared
\* empty array was not deleted, and the counter and the sequence indices of
\* the installed array are those a single call would have left
C35_AsStated ==
    SetupAllDone =>
        /\ static_fields # 0
        /\ setup_installs = 1
        /\ static_fields \notin setup_deleted
        /\ SharedEmpty \notin setup_deleted
        /\ FieldArrayOf(static_fields) = AloneFrom(holder_fields, 0).array
        /\ setup_fieldinit_count = AloneFrom(holder_fields, 0).count

====
